---- MODULE Spec2Model ----
(***************************************************************************)
(* Cross-stack configuration validation.                                   *)
(*                                                                         *)
(*   ConfigValidator        cf-templates/utilities/validate-config.py      *)
(*   DependencyValidator    cf-templates/utilities/validate-dependencies.py*)
(*   ValidationOrchestrator cf-templates/utilities/validation/             *)
(*                          validation-orchestrator.py                     *)
(*                                                                         *)
(* A configuration is a JSON document: two insertion-ordered dicts,        *)
(* stack_outputs and dependencies.  A dict is modelled as a sequence of    *)
(* [key, val] entries with distinct keys; a JSON object with optional      *)
(* fields as a record carrying the set of keys that are present.           *)
(***************************************************************************)
EXTENDS Integers, Sequences, FiniteSets, TLC

(***************************************************************************)
(* Bounds of the model                                                     *)
(***************************************************************************)
MaxEdges == 3       \* dependency entries in a dependency graph
MaxOutputs == 2     \* entries in one stack's output list
MaxList == 2        \* names listed by the dependencies of one stack
MaxIssues == 2      \* issues or messages one orchestrator pass returns
MaxResults == 1     \* parameter results the parameter pass returns

\* the stack names and output names that occur in a configuration
StackNames == <<"A", "B", "C">>
Stacks == {StackNames[i] : i \in 1..Len(StackNames)}
Names == {"X", "Y"}

(***************************************************************************)
(* Generic helpers                                                         *)
(***************************************************************************)
RECURSIVE Concat(_)
Concat(ss) == IF Len(ss) = 0 THEN <<>> ELSE Head(ss) \o Concat(Tail(ss))

Range(s) == {s[i] : i \in 1..Len(s)}

RECURSIVE Sum(_)
Sum(s) == IF Len(s) = 0 THEN 0 ELSE Head(s) + Sum(Tail(s))

SeqsUpTo(S, n) == UNION {[1..k -> S] : k \in 0..n}

\* all orderings of a finite set, as sequences without repetition
Orderings(S) == {s \in [1..Cardinality(S) -> S] : Range(s) = S}

\* Python dict: membership, lookup, keys in insertion order
Has(d, k) == \E i \in 1..Len(d) : d[i].key = k
Get(d, k) == d[CHOOSE i \in 1..Len(d) : d[i].key = k].val
Keys(d) == {d[i].key : i \in 1..Len(d)}

(***************************************************************************)
(* Export-name templates.  The code only tests an export name for          *)
(* truthiness, for equality and for the two placeholder substrings, so a   *)
(* template string is the record of those facts plus its remaining text.   *)
(***************************************************************************)
ExportName(p, e, r) == [project |-> p, environment |-> e, rest |-> r]
EmptyExport == ExportName(FALSE, FALSE, "")
ExportVpc == ExportName(TRUE, TRUE, "VPC-ID")
ExportSg == ExportName(TRUE, TRUE, "SG-ID")
ExportBare == ExportName(FALSE, TRUE, "VPC-ID")
Truthy(export_name) == export_name # EmptyExport

(***************************************************************************)
(* Configuration entries                                                   *)
(***************************************************************************)
OutputFields == <<"name", "description", "value", "export_name">>
DepFields == <<"stack_name", "required_outputs">>

\* one entry of a stack's output list
Output(keys, name, export_name) ==
    [keys |-> keys,
     name |-> IF "name" \in keys THEN name ELSE "",
     export_name |-> IF "export_name" \in keys THEN export_name ELSE EmptyExport]

\* one entry of a stack's dependency list; optional_null: the key is
\* present with the JSON value null; scalars: the keys among required_outputs
\* and optional_outputs whose value is a JSON number instead of a list
Dependency(keys, stack_name, required, optional, optional_null) ==
    [keys |-> keys,
     stack_name |-> IF "stack_name" \in keys THEN stack_name ELSE "",
     required_outputs |-> IF "required_outputs" \in keys THEN required ELSE <<>>,
     optional_outputs |-> IF "optional_outputs" \in keys /\ ~optional_null
                          THEN optional ELSE <<>>,
     optional_null |-> "optional_outputs" \in keys /\ optional_null,
     scalars |-> {}]

ListFields == <<"required_outputs", "optional_outputs">>

ScalarDependency(keys, stack_name, optional_null, scalars) ==
    [Dependency(keys, stack_name, <<>>, <<>>,
                optional_null /\ "optional_outputs" \notin scalars)
        EXCEPT !.scalars = scalars \cap keys \cap Range(ListFields)]

Entry(k, v) == [key |-> k, val |-> v]

(***************************************************************************)
(* Diagnostics: the f-string messages appended to self.errors and          *)
(* self.warnings, as the record of the values each message interpolates.   *)
(***************************************************************************)
NoDiag ==
    [kind |-> "", stack |-> "", idx |-> 0, field |-> "", output |-> "",
     target |-> "", export |-> EmptyExport, cycle |-> <<>>]

MissingSection(section) ==
    [NoDiag EXCEPT !.kind = "missing_section", !.field = section]
OutputFieldMissing(stack, i, field) ==
    [NoDiag EXCEPT !.kind = "output_field_missing", !.stack = stack,
                   !.idx = i, !.field = field]
NamingWarning(stack, name, export_name) ==
    [NoDiag EXCEPT !.kind = "naming", !.stack = stack, !.output = name,
                   !.export = export_name]
DepFieldMissing(stack, i, field) ==
    [NoDiag EXCEPT !.kind = "dep_field_missing", !.stack = stack,
                   !.idx = i, !.field = field]
DepNotList(stack, i, field) ==
    [NoDiag EXCEPT !.kind = "dep_not_list", !.stack = stack, !.idx = i,
                   !.field = field]
NoOutputDefinitions(target) ==
    [NoDiag EXCEPT !.kind = "no_output_definitions", !.target = target]
RequiredMissing(stack, output, target) ==
    [NoDiag EXCEPT !.kind = "required_missing", !.stack = stack,
                   !.output = output, !.target = target]
OptionalMissing(stack, output, target) ==
    [NoDiag EXCEPT !.kind = "optional_missing", !.stack = stack,
                   !.output = output, !.target = target]
ExportDuplicate(export_name, stack, first) ==
    [NoDiag EXCEPT !.kind = "export_duplicate", !.export = export_name,
                   !.stack = stack, !.target = first]
CycleError(cycle) ==
    [NoDiag EXCEPT !.kind = "cycle", !.cycle = cycle]

(***************************************************************************)
(* ConfigValidator: the checks.  Each returns what the method appends to   *)
(* self.errors and self.warnings, in order, and the value it returns;      *)
(* raised is TRUE when the method is left by an uncaught exception, and    *)
(* then errors and warnings are those appended before it was raised.       *)
(***************************************************************************)
CheckResult(errors, warnings, valid, raised) ==
    [errors |-> errors, warnings |-> warnings, valid |-> valid, raised |-> raised]

RequiredSections == <<"stack_outputs", "dependencies">>

\* the loop returns at the first missing section
validate_structure(config) ==
    LET missing == SelectSeq(RequiredSections, LAMBDA s : s \notin config.sections)
    IN  IF Len(missing) > 0
        THEN CheckResult(<<MissingSection(missing[1])>>, <<>>, FALSE, FALSE)
        ELSE CheckResult(<<>>, <<>>, TRUE, FALSE)

\* errors of one output entry: one per required field that is not a key
OutputEntryErrors(stack_name, i, output) ==
    LET missing == SelectSeq(OutputFields, LAMBDA f : f \notin output.keys)
    IN  [j \in 1..Len(missing) |-> OutputFieldMissing(stack_name, i, missing[j])]

\* output.get('export_name', '') tested against the naming convention
OutputEntryWarnings(stack_name, output) ==
    LET export_name == output.export_name
    IN  IF Truthy(export_name) /\ ~(export_name.project /\ export_name.environment)
        THEN <<NamingWarning(stack_name,
                             IF "name" \in output.keys THEN output.name ELSE "unknown",
                             export_name)>>
        ELSE <<>>

validate_stack_outputs(stack_outputs) ==
    LET errs == Concat([k \in 1..Len(stack_outputs) |->
                   Concat([i \in 1..Len(stack_outputs[k].val) |->
                       OutputEntryErrors(stack_outputs[k].key, i - 1,
                                         stack_outputs[k].val[i])])])
        warns == Concat([k \in 1..Len(stack_outputs) |->
                   Concat([i \in 1..Len(stack_outputs[k].val) |->
                       OutputEntryWarnings(stack_outputs[k].key,
                                           stack_outputs[k].val[i])])])
    IN  CheckResult(errs, warns, Len(errs) = 0, FALSE)

\* errors of one dependency entry: one per required field that is not a
\* key, then one per list field that is present and not a list; None is
\* let through for optional_outputs
DepEntryErrors(stack_name, i, dep) ==
    LET missing == SelectSeq(DepFields, LAMBDA f : f \notin dep.keys)
        not_list == SelectSeq(ListFields, LAMBDA f : f \in dep.scalars)
    IN  [j \in 1..Len(missing) |-> DepFieldMissing(stack_name, i, missing[j])]
        \o [j \in 1..Len(not_list) |-> DepNotList(stack_name, i, not_list[j])]

\* faulty variant: valid is not cleared when an error is recorded
validate_dependencies_keeps_valid(dependencies) ==
    LET errs == Concat([k \in 1..Len(dependencies) |->
                   Concat([i \in 1..Len(dependencies[k].val) |->
                       DepEntryErrors(dependencies[k].key, i - 1,
                                      dependencies[k].val[i])])])
    IN  CheckResult(errs, <<>>, TRUE, FALSE)

validate_dependencies(dependencies) ==
    LET errs == Concat([k \in 1..Len(dependencies) |->
                   Concat([i \in 1..Len(dependencies[k].val) |->
                       DepEntryErrors(dependencies[k].key, i - 1,
                                      dependencies[k].val[i])])])
    IN  CheckResult(errs, <<>>, Len(errs) = 0, FALSE)

(***************************************************************************)
(* validate_output_dependency_consistency                                  *)
(***************************************************************************)
\* the (dependent stack, dependency) pairs in the order the nested loops
\* over dependencies.items() visit them
DependencyPairs(dependencies) ==
    Concat([k \in 1..Len(dependencies) |->
        [i \in 1..Len(dependencies[k].val) |->
            [stack |-> dependencies[k].key, dep |-> dependencies[k].val[i]]]])

\* {output['name'] for output in stack_outputs[dep_stack_name]}
DefinedOutputs(outputs) == {outputs[i].name : i \in 1..Len(outputs)}
\* output['name'] raises KeyError on an entry without the key
DefinedOutputsRaises(outputs) == \E i \in 1..Len(outputs) : "name" \notin outputs[i].keys

\* faulty variant: the membership test is inverted
MissingOf_inverted(list, defined) == SelectSeq(list, LAMBDA n : n \in defined)

MissingOf(list, defined) == SelectSeq(list, LAMBDA n : n \notin defined)

\* faulty variant: a missing optional output is recorded as an error
ConsistencyOfDependency_optional_as_error(stack_outputs, stack_name, dep) ==
    LET has_target == "stack_name" \in dep.keys /\ Has(stack_outputs, dep.stack_name)
        dep_stack_name == IF "stack_name" \in dep.keys THEN dep.stack_name ELSE "None"
    IN  IF ~has_target
        THEN CheckResult(<<>>, <<NoOutputDefinitions(dep_stack_name)>>, TRUE, FALSE)
        ELSE IF DefinedOutputsRaises(Get(stack_outputs, dep.stack_name))
        THEN CheckResult(<<>>, <<>>, TRUE, TRUE)
        \* iterating a number raises TypeError
        ELSE IF "required_outputs" \in dep.scalars
        THEN CheckResult(<<>>, <<>>, TRUE, TRUE)
        ELSE LET defined == DefinedOutputs(Get(stack_outputs, dep.stack_name))
                 req == MissingOf(dep.required_outputs, defined)
                 opt == MissingOf(dep.optional_outputs, defined)
                 errs == [j \in 1..Len(req) |->
                             RequiredMissing(stack_name, req[j], dep_stack_name)]
                 warns == [j \in 1..Len(opt) |->
                             OptionalMissing(stack_name, opt[j], dep_stack_name)]
             IN  IF dep.optional_null \/ "optional_outputs" \in dep.scalars
                 THEN CheckResult(errs, <<>>, Len(errs) = 0, TRUE)
                 ELSE CheckResult(errs \o warns, <<>>, Len(errs \o warns) = 0, FALSE)

\* faulty variant: no continue after the warning for a target without
\* output definitions, the lists are then checked against no outputs
ConsistencyOfDependency_no_continue(stack_outputs, stack_name, dep) ==
    LET has_target == "stack_name" \in dep.keys /\ Has(stack_outputs, dep.stack_name)
        dep_stack_name == IF "stack_name" \in dep.keys THEN dep.stack_name ELSE "None"
        outputs == IF has_target THEN Get(stack_outputs, dep.stack_name) ELSE <<>>
        first == IF has_target THEN <<>> ELSE <<NoOutputDefinitions(dep_stack_name)>>
    IN  IF DefinedOutputsRaises(outputs)
        THEN CheckResult(<<>>, first, TRUE, TRUE)
        ELSE LET defined == DefinedOutputs(outputs)
                 req == MissingOf(dep.required_outputs, defined)
                 opt == MissingOf(dep.optional_outputs, defined)
                 errs == [j \in 1..Len(req) |->
                             RequiredMissing(stack_name, req[j], dep_stack_name)]
                 warns == [j \in 1..Len(opt) |->
                             OptionalMissing(stack_name, opt[j], dep_stack_name)]
             IN  IF dep.optional_null \/ "optional_outputs" \in dep.scalars
                 THEN CheckResult(errs, first, Len(errs) = 0, TRUE)
                 ELSE CheckResult(errs, first \o warns, Len(errs) = 0, FALSE)

\* the body of the inner loop for one dependency
ConsistencyOfDependency(stack_outputs, stack_name, dep) ==
    LET has_target == "stack_name" \in dep.keys /\ Has(stack_outputs, dep.stack_name)
        dep_stack_name == IF "stack_name" \in dep.keys THEN dep.stack_name ELSE "None"
    IN  IF ~has_target
        THEN CheckResult(<<>>, <<NoOutputDefinitions(dep_stack_name)>>, TRUE, FALSE)
        ELSE IF DefinedOutputsRaises(Get(stack_outputs, dep.stack_name))
        THEN CheckResult(<<>>, <<>>, TRUE, TRUE)
        \* iterating a number raises TypeError
        ELSE IF "required_outputs" \in dep.scalars
        THEN CheckResult(<<>>, <<>>, TRUE, TRUE)
        ELSE LET defined == DefinedOutputs(Get(stack_outputs, dep.stack_name))
                 req == MissingOf(dep.required_outputs, defined)
                 opt == MissingOf(dep.optional_outputs, defined)
                 errs == [j \in 1..Len(req) |->
                             RequiredMissing(stack_name, req[j], dep_stack_name)]
                 warns == [j \in 1..Len(opt) |->
                             OptionalMissing(stack_name, opt[j], dep_stack_name)]
             IN  \* iterating optional_outputs = None raises TypeError
                 IF dep.optional_null \/ "optional_outputs" \in dep.scalars
                 THEN CheckResult(errs, <<>>, Len(errs) = 0, TRUE)
                 ELSE CheckResult(errs, warns, Len(errs) = 0, FALSE)

RECURSIVE ConsistencyLoop(_, _, _)
ConsistencyLoop(stack_outputs, pairs, acc) ==
    IF Len(pairs) = 0 THEN acc
    ELSE LET r == ConsistencyOfDependency(stack_outputs, Head(pairs).stack, Head(pairs).dep)
             next == CheckResult(acc.errors \o r.errors, acc.warnings \o r.warnings,
                                 acc.valid /\ r.valid, r.raised)
         IN  IF r.raised THEN next
             ELSE ConsistencyLoop(stack_outputs, Tail(pairs), next)

validate_output_dependency_consistency(config) ==
    ConsistencyLoop(config.stack_outputs, DependencyPairs(config.dependencies),
                    CheckResult(<<>>, <<>>, TRUE, FALSE))

(***************************************************************************)
(* validate_export_name_uniqueness                                         *)
(***************************************************************************)
\* the (stack, export_name) pairs with a truthy export name, in the order
\* the nested loops visit them
ExportPairs(stack_outputs) ==
    SelectSeq(
        Concat([k \in 1..Len(stack_outputs) |->
            [i \in 1..Len(stack_outputs[k].val) |->
                [stack |-> stack_outputs[k].key,
                 export |-> stack_outputs[k].val[i].export_name]]]),
        LAMBDA p : Truthy(p.export))

\* export_names is the first-seen map, a set of [export, stack] facts
RECURSIVE UniquenessLoop(_, _, _)
\* faulty variant: the map is overwritten with the latest owner of a name
UniquenessLoop_last_seen(pairs, export_names, errs) ==
    IF Len(pairs) = 0 THEN errs
    ELSE LET p == Head(pairs)
             seen == {e \in export_names : e.export = p.export}
         IN  IF seen # {}
             THEN UniquenessLoop(Tail(pairs), (export_names \ seen) \cup {p},
                      Append(errs, ExportDuplicate(p.export, p.stack,
                                                   (CHOOSE e \in seen : TRUE).stack)))
             ELSE UniquenessLoop(Tail(pairs), export_names \cup {p}, errs)

UniquenessLoop(pairs, export_names, errs) ==
    IF Len(pairs) = 0 THEN errs
    ELSE LET p == Head(pairs)
             seen == {e \in export_names : e.export = p.export}
         IN  IF seen # {}
             THEN UniquenessLoop(Tail(pairs), export_names,
                      Append(errs, ExportDuplicate(p.export, p.stack,
                                                   (CHOOSE e \in seen : TRUE).stack)))
             ELSE UniquenessLoop(Tail(pairs), export_names \cup {p}, errs)

validate_export_name_uniqueness(stack_outputs) ==
    LET errs == UniquenessLoop(ExportPairs(stack_outputs), {}, <<>>)
    IN  CheckResult(errs, <<>>, Len(errs) = 0, FALSE)

(***************************************************************************)
(* ConfigValidator.detect_circular_dependencies                            *)
(***************************************************************************)
ProbeResult(found, appended) == [found |-> found, appended |-> appended]

\* set(dependencies.keys()) plus every truthy dep.get('stack_name')
AllStacks(dependencies) ==
    Keys(dependencies) \cup
    {p.dep.stack_name : p \in {q \in Range(DependencyPairs(dependencies)) :
                                   "stack_name" \in q.dep.keys}}

RECURSIVE has_path(_, _, _, _, _)
RECURSIVE has_path_loop(_, _, _, _, _, _)

\* the for loop of has_path over dependencies[start], from entry i on;
\* visited and path already contain start
has_path_loop(dependencies, deps, i, end, visited, path) ==
    IF i > Len(deps) THEN ProbeResult(FALSE, <<>>)
    ELSE LET dep == deps[i]
             r == IF "stack_name" \in dep.keys
                  THEN has_path(dependencies, dep.stack_name, end, visited, path)
                  ELSE ProbeResult(FALSE, <<>>)
         IN  IF r.found THEN r
             ELSE has_path_loop(dependencies, deps, i + 1, end, visited, path)

\* faulty variant: the path-length test of the base case is dropped
has_path_any_length(dependencies, start, end, visited, path) ==
    IF start = end
    THEN ProbeResult(TRUE, <<path \o <<end>>>>)
    ELSE IF start \in visited
    THEN ProbeResult(FALSE, <<>>)
    ELSE IF Has(dependencies, start)
    THEN has_path_loop(dependencies, Get(dependencies, start), 1, end,
                       visited \cup {start}, path \o <<start>>)
    ELSE ProbeResult(FALSE, <<>>)

\* faulty variant: the cycle is recorded without its closing element
has_path_open_cycle(dependencies, start, end, visited, path) ==
    IF start = end /\ Len(path) > 1
    THEN ProbeResult(TRUE, <<path>>)
    ELSE IF start \in visited
    THEN ProbeResult(FALSE, <<>>)
    ELSE IF Has(dependencies, start)
    THEN has_path_loop(dependencies, Get(dependencies, start), 1, end,
                       visited \cup {start}, path \o <<start>>)
    ELSE ProbeResult(FALSE, <<>>)

\* appended: what the call appends to circular_deps
has_path(dependencies, start, end, visited, path) ==
    IF start = end /\ Len(path) > 1
    THEN ProbeResult(TRUE, <<path \o <<end>>>>)
    ELSE IF start \in visited
    THEN ProbeResult(FALSE, <<>>)
    ELSE IF Has(dependencies, start)
    THEN has_path_loop(dependencies, Get(dependencies, start), 1, end,
                       visited \cup {start}, path \o <<start>>)
    ELSE ProbeResult(FALSE, <<>>)

\* faulty variant: the loop over all_stacks stops at the first cycle found
detect_circular_dependencies_first(dependencies, order) ==
    LET found == {k \in 1..Len(order) :
                     /\ Has(dependencies, order[k])
                     /\ has_path(dependencies, order[k], order[k], {}, <<>>).found}
    IN  IF found = {} THEN <<>>
        ELSE LET k == CHOOSE m \in found : \A n \in found : m <= n
             IN  has_path(dependencies, order[k], order[k], {}, <<>>).appended

RECURSIVE has_path_lookups(_, _, _, _, _)
RECURSIVE has_path_loop_lookups(_, _, _, _, _, _)

\* the stacks for which the for loop from entry i on evaluates
\* `start in dependencies`, in order
has_path_loop_lookups(dependencies, deps, i, end, visited, path) ==
    IF i > Len(deps) THEN <<>>
    ELSE LET dep == deps[i]
         IN  IF "stack_name" \in dep.keys
             THEN has_path_lookups(dependencies, dep.stack_name, end, visited, path)
                  \o (IF has_path(dependencies, dep.stack_name, end, visited, path).found
                      THEN <<>>
                      ELSE has_path_loop_lookups(dependencies, deps, i + 1, end,
                                                 visited, path))
             ELSE has_path_loop_lookups(dependencies, deps, i + 1, end, visited, path)

\* the stacks for which a has_path call and its recursive calls evaluate
\* `start in dependencies`, in order
has_path_lookups(dependencies, start, end, visited, path) ==
    IF start = end /\ Len(path) > 1 THEN <<>>
    ELSE IF start \in visited THEN <<>>
    ELSE IF Has(dependencies, start)
    THEN <<start>> \o has_path_loop_lookups(dependencies, Get(dependencies, start), 1,
                                            end, visited \cup {start}, path \o <<start>>)
    ELSE <<start>>

\* faulty variant: the list is fetched with dependencies.setdefault(start, [])
LookupDependencies_setdefault(dependencies, start) ==
    IF Has(dependencies, start) THEN dependencies
    ELSE Append(dependencies, Entry(start, <<>>))

\* dependencies after `if start in dependencies: for dep in
\* dependencies[start]`: a membership test, and a subscript that is
\* evaluated for a present key only; neither writes to the dict
LookupDependencies(dependencies, start) == dependencies

RECURSIVE AfterLookups(_, _)
AfterLookups(dependencies, lookups) ==
    IF Len(lookups) = 0 THEN dependencies
    ELSE AfterLookups(LookupDependencies(dependencies, Head(lookups)), Tail(lookups))

\* the dependencies mapping when detect_circular_dependencies returns
dependencies_after_detection(dependencies, order) ==
    AfterLookups(dependencies,
        Concat([k \in 1..Len(order) |->
            IF Has(dependencies, order[k])
            THEN has_path_lookups(dependencies, order[k], order[k], {}, <<>>)
            ELSE <<>>]))

\* order: the iteration order of the set all_stacks
detect_circular_dependencies(dependencies, order) ==
    Concat([k \in 1..Len(order) |->
        IF Has(dependencies, order[k])
        THEN has_path(dependencies, order[k], order[k], {}, <<>>).appended
        ELSE <<>>])

(***************************************************************************)
(* DependencyValidator.detect_circular_dependencies                        *)
(***************************************************************************)
\* dep['stack_name'] raises KeyError while all_stacks is built
dv_raises(dependencies) ==
    \E p \in Range(DependencyPairs(dependencies)) : "stack_name" \notin p.dep.keys

RECURSIVE dv_has_path(_, _, _, _)
dv_has_path(dependencies, start, end, visited) ==
    IF start = end THEN TRUE
    ELSE IF start \in visited THEN FALSE
    ELSE IF Has(dependencies, start)
    THEN LET deps == Get(dependencies, start)
         IN  \E i \in 1..Len(deps) :
                 dv_has_path(dependencies, deps[i].stack_name, end,
                             visited \cup {start})
    ELSE FALSE

RECURSIVE dv_pair_loop(_, _, _)

\* faulty variant: the reversed pair is not looked up before appending
dv_pair_loop_both_orders(dependencies, pairs, circular) ==
    IF Len(pairs) = 0 THEN circular
    ELSE LET stack_a == Head(pairs)[1]
             stack_b == Head(pairs)[2]
             cycle == <<stack_a, stack_b>>
             hit == /\ stack_a # stack_b
                    /\ dv_has_path(dependencies, stack_a, stack_b, {})
                    /\ dv_has_path(dependencies, stack_b, stack_a, {})
                    /\ cycle \notin Range(circular)
         IN  dv_pair_loop(dependencies, Tail(pairs),
                          IF hit THEN Append(circular, cycle) ELSE circular)

dv_pair_loop(dependencies, pairs, circular) ==
    IF Len(pairs) = 0 THEN circular
    ELSE LET stack_a == Head(pairs)[1]
             stack_b == Head(pairs)[2]
             cycle == <<stack_a, stack_b>>
             hit == /\ stack_a # stack_b
                    /\ dv_has_path(dependencies, stack_a, stack_b, {})
                    /\ dv_has_path(dependencies, stack_b, stack_a, {})
                    /\ cycle \notin Range(circular)
                    /\ <<stack_b, stack_a>> \notin Range(circular)
         IN  dv_pair_loop(dependencies, Tail(pairs),
                          IF hit THEN Append(circular, cycle) ELSE circular)

dv_detect_circular_dependencies(dependencies, order) ==
    dv_pair_loop(dependencies,
                 Concat([a \in 1..Len(order) |->
                            [b \in 1..Len(order) |-> <<order[a], order[b]>>]]),
                 <<>>)

(***************************************************************************)
(* DependencyValidator.validate_all_stacks.  What describe_stacks answers  *)
(* for a stack name is given by the environment: the stack does not exist  *)
(* (ClientError with code ValidationError), the call fails with another    *)
(* ClientError, or the stack is returned with its status and the keys of   *)
(* its outputs that carry an ExportName.                                   *)
(***************************************************************************)
DescribeStacks(kind, status, exports) ==
    [kind |-> kind, status |-> status, exports |-> exports]
StackAbsent == DescribeStacks("ValidationError", "", {})
AccessDenied == DescribeStacks("ClientError", "", {})
CompleteStatuses == {"CREATE_COMPLETE", "UPDATE_COMPLETE"}

DepStackStatus(target, status) ==
    [NoDiag EXCEPT !.kind = "dep_stack_status", !.target = target, !.field = status]
DepStackAbsent(target) ==
    [NoDiag EXCEPT !.kind = "dep_stack_absent", !.target = target]
DepStackCheckError(target) ==
    [NoDiag EXCEPT !.kind = "dep_stack_check_error", !.target = target]
ExportMissing(output, target) ==
    [NoDiag EXCEPT !.kind = "export_missing", !.output = output, !.target = target]
OptionalExportMissing(output, target) ==
    [NoDiag EXCEPT !.kind = "optional_export_missing", !.output = output,
                   !.target = target]

ValidationResult(stack_name, is_valid, errs, warns, missing, circular) ==
    [stack_name |-> stack_name, is_valid |-> is_valid, errors |-> errs,
     warnings |-> warns, missing_exports |-> missing,
     circular_dependencies |-> circular]

\* a method's outcome: the result it built, and whether it was left by an
\* uncaught exception
Outcome(result, raised) == [result |-> result, raised |-> raised]

\* the body of the loop over the dependencies of one stack
CheckDependency(result, dep, answer) ==
    IF "stack_name" \notin dep.keys \/ "required_outputs" \notin dep.keys
    THEN Outcome(result, TRUE)
    ELSE IF answer.kind = "ValidationError"
    THEN Outcome([result EXCEPT
                     !.errors = Append(@, DepStackAbsent(dep.stack_name)),
                     !.is_valid = FALSE], FALSE)
    ELSE IF answer.kind = "ClientError"
    THEN Outcome([result EXCEPT
                     !.errors = Append(@, DepStackCheckError(dep.stack_name)),
                     !.is_valid = FALSE], FALSE)
    ELSE IF answer.status \notin CompleteStatuses
    THEN Outcome([result EXCEPT
                     !.errors = Append(@, DepStackStatus(dep.stack_name,
                                                         answer.status)),
                     !.is_valid = FALSE], FALSE)
    \* for required_output in a number
    ELSE IF "required_outputs" \in dep.scalars
    THEN Outcome(result, TRUE)
    ELSE LET missing == MissingOf(dep.required_outputs, answer.exports)
             optional == MissingOf(dep.optional_outputs, answer.exports)
         IN  Outcome(
                 [result EXCEPT
                     !.missing_exports = @ \o
                         [i \in 1..Len(missing) |->
                             ExportMissing(missing[i], dep.stack_name)],
                     !.is_valid = IF Len(missing) > 0 THEN FALSE ELSE @,
                     !.warnings = @ \o
                         [i \in 1..Len(optional) |->
                             OptionalExportMissing(optional[i], dep.stack_name)]],
                 \* for optional_output in None, or in a number
                 dep.optional_null \/ "optional_outputs" \in dep.scalars)

RECURSIVE StackDependencyLoop(_, _, _)
StackDependencyLoop(deps, aws, outcome) ==
    IF Len(deps) = 0 \/ outcome.raised THEN outcome
    ELSE StackDependencyLoop(
             Tail(deps), aws,
             CheckDependency(outcome.result, Head(deps),
                             IF Head(deps).stack_name \in DOMAIN aws
                             THEN aws[Head(deps).stack_name] ELSE StackAbsent))

validate_stack_dependencies(stack_name, config, aws) ==
    LET result == ValidationResult(stack_name, TRUE, <<>>, <<>>, <<>>, <<>>)
    IN  IF ~Has(config.dependencies, stack_name)
        THEN Outcome(result, FALSE)
        ELSE StackDependencyLoop(Get(config.dependencies, stack_name), aws,
                                 Outcome(result, FALSE))

\* the outputs whose truthy export name lacks a placeholder, in the order
\* the nested loops visit them
NamingPairs(stack_outputs) ==
    SelectSeq(
        Concat([k \in 1..Len(stack_outputs) |->
            [i \in 1..Len(stack_outputs[k].val) |->
                [stack |-> stack_outputs[k].key,
                 output |-> stack_outputs[k].val[i]]]]),
        LAMBDA p : /\ Truthy(p.output.export_name)
                   /\ ~(p.output.export_name.project
                        /\ p.output.export_name.environment))

\* output['name'] in the message raises KeyError on an entry without the key
validate_export_naming_consistency(config) ==
    LET pairs == NamingPairs(config.stack_outputs)
    IN  Outcome([i \in 1..Len(pairs) |->
                    NamingWarning(pairs[i].stack, pairs[i].output.name,
                                  pairs[i].output.export_name)],
                \E i \in 1..Len(pairs) : "name" \notin pairs[i].output.keys)

\* for cycle in circular_deps: if stack_name in cycle: ...
RECURSIVE AddCycles(_, _)
AddCycles(result, circular) ==
    IF Len(circular) = 0 THEN result
    ELSE AddCycles(
             IF result.stack_name \in Range(Head(circular))
             THEN [result EXCEPT
                      !.circular_dependencies = @ \o Head(circular),
                      !.errors = Append(@, CycleError(Head(circular))),
                      !.is_valid = FALSE]
             ELSE result,
             Tail(circular))

\* faulty variant: the naming issues are recorded as errors of the stack
AddNamingIssues_as_errors(result, naming_issues) ==
    IF Len(naming_issues) = 0 THEN result
    ELSE [result EXCEPT !.errors = @ \o naming_issues, !.is_valid = FALSE]

\* results[stack_name].warnings.extend(naming_issues)
AddNamingIssues(result, naming_issues) ==
    [result EXCEPT !.warnings = @ \o naming_issues]

\* order: the iteration order of the set all_stacks of
\* detect_circular_dependencies; stack_order: that of the set all_stacks of
\* validate_all_stacks, which is also the insertion order of results
validate_all_stacks(config, aws, order, stack_order) ==
    LET naming == validate_export_naming_consistency(config)
        circular == dv_detect_circular_dependencies(config.dependencies, order)
        checked == [i \in 1..Len(stack_order) |->
                       validate_stack_dependencies(stack_order[i], config, aws)]
        raised == \/ dv_raises(config.dependencies)
                  \/ naming.raised
                  \/ \E i \in 1..Len(stack_order) : checked[i].raised
    IN  IF raised THEN Outcome(<<>>, TRUE)
        ELSE Outcome(
                 [i \in 1..Len(stack_order) |->
                     Entry(stack_order[i],
                           AddNamingIssues(AddCycles(checked[i].result, circular),
                                           naming.result))],
                 FALSE)

(***************************************************************************)
(* ValidationOrchestrator: the three passes.  The validators behind the    *)
(* passes are given by what they return: a list of issue severities, a     *)
(* list of parameter results, a list of compliance messages.               *)
(***************************************************************************)
Severities == {"error", "warning", "info"}

CountOf(s, v) == Cardinality({i \in 1..Len(s) : s[i] = v})

\* CloudFormationValidator.validate_template: (is_valid, issues).
\* loaded = FALSE: load_template returned None with load_issues = issues
validate_template(loaded, issues) ==
    IF ~loaded THEN [is_valid |-> FALSE, issues |-> issues]
    ELSE [is_valid |-> CountOf(issues, "error") = 0, issues |-> issues]

\* faulty variant: the except clause reports the failure as a finding of a
\* completed pass
run_syntax_validation_except_as_fail(raises, loaded, issues) ==
    IF raises
    THEN [status |-> "FAIL", is_valid |-> FALSE, issues |-> <<"error">>,
          error_count |-> 1, warning_count |-> 0, info_count |-> 0]
    ELSE LET r == validate_template(loaded, issues)
         IN  [status |-> IF r.is_valid THEN "PASS" ELSE "FAIL",
              is_valid |-> r.is_valid,
              issues |-> r.issues,
              error_count |-> CountOf(r.issues, "error"),
              warning_count |-> CountOf(r.issues, "warning"),
              info_count |-> CountOf(r.issues, "info")]

\* _run_syntax_validation; raises: an exception reached the except clause
run_syntax_validation(raises, loaded, issues) ==
    IF raises
    THEN [status |-> "ERROR", is_valid |-> FALSE, issues |-> <<"error">>,
          error_count |-> 1, warning_count |-> 0, info_count |-> 0]
    ELSE LET r == validate_template(loaded, issues)
         IN  [status |-> IF r.is_valid THEN "PASS" ELSE "FAIL",
              is_valid |-> r.is_valid,
              issues |-> r.issues,
              error_count |-> CountOf(r.issues, "error"),
              warning_count |-> CountOf(r.issues, "warning"),
              info_count |-> CountOf(r.issues, "info")]

\* a ParameterValidationResult: is_valid and the number of its warnings
ParamResult(is_valid, warnings) == [is_valid |-> is_valid, warnings |-> warnings]

RECURSIVE SumWarnings(_)
SumWarnings(results) ==
    IF Len(results) = 0 THEN 0
    ELSE Head(results).warnings + SumWarnings(Tail(results))

ParamFailure(status, config_errors) ==
    [status |-> status, is_valid |-> FALSE, results |-> <<>>,
     config_errors |-> config_errors, error_count |-> 1, warning_count |-> 0]

\* faulty variant: a skipped pass is marked invalid
run_parameter_validation_skipped_invalid(parameters_path, outcome, results, config_errors) ==
    IF ~parameters_path
    THEN [status |-> "SKIPPED", is_valid |-> FALSE, results |-> <<>>,
          config_errors |-> 0, error_count |-> 0, warning_count |-> 0]
    ELSE IF outcome # "ok"
    THEN ParamFailure("ERROR", 1)
    ELSE LET invalid == Cardinality({i \in 1..Len(results) : ~results[i].is_valid})
             has_errors == invalid > 0 \/ config_errors > 0
         IN  [status |-> IF has_errors THEN "FAIL" ELSE "PASS",
              is_valid |-> ~has_errors,
              results |-> results,
              config_errors |-> config_errors,
              error_count |-> invalid + config_errors,
              warning_count |-> SumWarnings(results)]

\* _run_parameter_validation.  outcome: "ok", "no_template", "no_parameters"
\* or "raises"; config_errors: the number of schema and consistency errors
run_parameter_validation(parameters_path, outcome, results, config_errors) ==
    IF ~parameters_path
    THEN [status |-> "SKIPPED", is_valid |-> TRUE, results |-> <<>>,
          config_errors |-> 0, error_count |-> 0, warning_count |-> 0]
    ELSE IF outcome # "ok"
    THEN ParamFailure("ERROR", 1)
    ELSE LET invalid == Cardinality({i \in 1..Len(results) : ~results[i].is_valid})
             has_errors == invalid > 0 \/ config_errors > 0
         IN  [status |-> IF has_errors THEN "FAIL" ELSE "PASS",
              is_valid |-> ~has_errors,
              results |-> results,
              config_errors |-> config_errors,
              error_count |-> invalid + config_errors,
              warning_count |-> SumWarnings(results)]

\* WellArchitectedValidator messages, by the prefix startswith() tests
WaMessage(prefix, text) == [prefix |-> prefix, text |-> text]
ComplianceItems == {"unknown_pillar", "unknown_practice", "known_practice"}

\* validate_template_metadata over the compliance entries in order
validate_template_metadata(has_compliance, items) ==
    IF ~has_compliance
    THEN [is_valid |-> FALSE,
          messages |-> <<WaMessage("Warning", "no_compliance_information")>>]
    ELSE [is_valid |-> \A i \in 1..Len(items) : items[i] # "unknown_practice",
          messages |-> [i \in 1..Len(items) |->
              IF items[i] = "known_practice" THEN WaMessage("OK", items[i])
              ELSE WaMessage("Warning", items[i])]]

\* validate_cloudformation_template
validate_cloudformation_template(readable, has_metadata, has_compliance, items) ==
    IF ~readable
    THEN [is_valid |-> FALSE, messages |-> <<WaMessage("Error", "reading_template")>>]
    ELSE IF ~has_metadata
    THEN [is_valid |-> FALSE, messages |-> <<WaMessage("Warning", "no_metadata")>>]
    ELSE validate_template_metadata(has_compliance, items)

PrefixCount(messages, prefix) ==
    Cardinality({i \in 1..Len(messages) : messages[i].prefix = prefix})

\* faulty variant: the status is taken from the error count, not from is_valid
run_well_architected_validation_by_count(raises, readable, has_metadata, has_compliance, items) ==
    IF raises
    THEN [status |-> "ERROR", is_valid |-> FALSE,
          messages |-> <<WaMessage("Exception", "exception")>>,
          error_count |-> 1, warning_count |-> 0, info_count |-> 0]
    ELSE LET r == validate_cloudformation_template(readable, has_metadata,
                                                   has_compliance, items)
         IN  [status |-> IF PrefixCount(r.messages, "Error") > 0 THEN "FAIL" ELSE "PASS",
              is_valid |-> r.is_valid,
              messages |-> r.messages,
              error_count |-> PrefixCount(r.messages, "Error"),
              warning_count |-> PrefixCount(r.messages, "Warning"),
              info_count |-> PrefixCount(r.messages, "OK")]

\* _run_well_architected_validation
run_well_architected_validation(raises, readable, has_metadata, has_compliance, items) ==
    IF raises
    THEN [status |-> "ERROR", is_valid |-> FALSE,
          messages |-> <<WaMessage("Exception", "exception")>>,
          error_count |-> 1, warning_count |-> 0, info_count |-> 0]
    ELSE LET r == validate_cloudformation_template(readable, has_metadata,
                                                   has_compliance, items)
         IN  [status |-> IF ~r.is_valid THEN "FAIL" ELSE "PASS",
              is_valid |-> r.is_valid,
              messages |-> r.messages,
              error_count |-> PrefixCount(r.messages, "Error"),
              warning_count |-> PrefixCount(r.messages, "Warning"),
              info_count |-> PrefixCount(r.messages, "OK")]

\* faulty variant: validity is decided from the error counts
create_validation_summary_by_error_count(syntax_results, parameter_results, wa_results) ==
    LET all_valid == /\ syntax_results.error_count = 0
                     /\ parameter_results.error_count = 0
                     /\ wa_results.error_count = 0
        has_warnings == \/ syntax_results.warning_count > 0
                        \/ parameter_results.warning_count > 0
                        \/ wa_results.warning_count > 0
        total_errors == syntax_results.error_count + parameter_results.error_count
                        + wa_results.error_count
        total_warnings == syntax_results.warning_count + parameter_results.warning_count
                          + wa_results.warning_count
        total_infos == syntax_results.info_count + wa_results.info_count
    IN  [overall_status |-> IF all_valid
                            THEN (IF has_warnings THEN "WARNING" ELSE "PASS")
                            ELSE "FAIL",
         syntax_validation |-> syntax_results,
         parameter_validation |-> parameter_results,
         well_architected_validation |-> wa_results,
         total_issues |-> total_errors + total_warnings + total_infos,
         errors |-> total_errors,
         warnings |-> total_warnings,
         infos |-> total_infos]

\* _create_validation_summary
create_validation_summary(syntax_results, parameter_results, wa_results) ==
    LET all_valid == /\ syntax_results.is_valid
                     /\ parameter_results.is_valid
                     /\ wa_results.is_valid
        has_warnings == \/ syntax_results.warning_count > 0
                        \/ parameter_results.warning_count > 0
                        \/ wa_results.warning_count > 0
        total_errors == syntax_results.error_count + parameter_results.error_count
                        + wa_results.error_count
        total_warnings == syntax_results.warning_count + parameter_results.warning_count
                          + wa_results.warning_count
        total_infos == syntax_results.info_count + wa_results.info_count
    IN  [overall_status |-> IF all_valid
                            THEN (IF has_warnings THEN "WARNING" ELSE "PASS")
                            ELSE "FAIL",
         syntax_validation |-> syntax_results,
         parameter_validation |-> parameter_results,
         well_architected_validation |-> wa_results,
         total_issues |-> total_errors + total_warnings + total_infos,
         errors |-> total_errors,
         warnings |-> total_warnings,
         infos |-> total_infos]

(***************************************************************************)
(* CrossStackManager: the registry of outputs and dependencies and its     *)
(* JSON export and import.  An Optional[List[str]] field is the record of  *)
(* whether it is None and of its items.                                    *)
(***************************************************************************)
PyNone == [is_none |-> TRUE, items |-> <<>>]
PyList(items) == [is_none |-> FALSE, items |-> items]

StackOutput(name, description, value, export_name, conditions) ==
    [name |-> name, description |-> description, value |-> value,
     export_name |-> export_name, conditions |-> conditions]

StackDependency(stack_name, required_outputs, optional_outputs) ==
    [stack_name |-> stack_name, required_outputs |-> required_outputs,
     optional_outputs |-> optional_outputs]

\* d[k] = v: an existing key keeps its position, a new key goes last
Put(d, k, v) ==
    IF Has(d, k)
    THEN [i \in 1..Len(d) |-> IF d[i].key = k THEN Entry(k, v) ELSE d[i]]
    ELSE Append(d, Entry(k, v))

\* self.stack_outputs and self.dependencies
Registry(outputs_by_stack, dependencies_by_stack) ==
    [stack_outputs |-> outputs_by_stack, dependencies |-> dependencies_by_stack]

EmptyRegistry == Registry(<<>>, <<>>)

\* faulty variant: the outputs are added to the list already registered
register_stack_outputs_extends(registry, stack_name, outputs) ==
    [registry EXCEPT !.stack_outputs =
        Put(@, stack_name,
            IF Has(@, stack_name) THEN Get(@, stack_name) \o outputs ELSE outputs)]

register_stack_outputs(registry, stack_name, outputs) ==
    [registry EXCEPT !.stack_outputs = Put(@, stack_name, outputs)]

\* faulty variant: a dependency equal to one already registered is dropped
register_dependency_once(registry, stack_name, dependency) ==
    LET deps == IF Has(registry.dependencies, stack_name)
                THEN registry.dependencies
                ELSE Append(registry.dependencies, Entry(stack_name, <<>>))
        mine == Get(deps, stack_name)
    IN  [registry EXCEPT !.dependencies =
            Put(deps, stack_name,
                IF dependency \in Range(mine) THEN mine ELSE Append(mine, dependency))]

register_dependency(registry, stack_name, dependency) ==
    LET deps == IF Has(registry.dependencies, stack_name)
                THEN registry.dependencies
                ELSE Append(registry.dependencies, Entry(stack_name, <<>>))
    IN  [registry EXCEPT !.dependencies =
            Put(deps, stack_name, Append(Get(deps, stack_name), dependency))]

\* x or []
OrEmptyList(x) == IF x.is_none \/ Len(x.items) = 0 THEN PyList(<<>>) ELSE x

\* the dict written for one output and for one dependency
OutputData(output) ==
    [keys |-> {"name", "description", "value", "export_name", "conditions"},
     name |-> output.name, description |-> output.description,
     value |-> output.value, export_name |-> output.export_name,
     conditions |-> output.conditions]

DependencyData(dep) ==
    [keys |-> {"stack_name", "required_outputs", "optional_outputs"},
     stack_name |-> dep.stack_name, required_outputs |-> dep.required_outputs,
     optional_outputs |-> OrEmptyList(dep.optional_outputs)]

\* {stack_name: [{...} for dep in deps] for stack_name, deps in ...items()}
DependenciesData(dependencies) ==
    [i \in 1..Len(dependencies) |->
        Entry(dependencies[i].key,
              [j \in 1..Len(dependencies[i].val) |->
                  DependencyData(dependencies[i].val[j])])]

\* {stack_name: [{...} for output in outputs] for stack_name, outputs in ...items()}
OutputsData(stack_outputs) ==
    [i \in 1..Len(stack_outputs) |->
        Entry(stack_outputs[i].key,
              [j \in 1..Len(stack_outputs[i].val) |->
                  OutputData(stack_outputs[i].val[j])])]

\* faulty variant: the outputs of each stack are written in reverse order
export_configuration_reversed(registry) ==
    [stack_outputs |->
        [i \in 1..Len(registry.stack_outputs) |->
            LET e == registry.stack_outputs[i]
            IN  Entry(e.key, [j \in 1..Len(e.val) |->
                                 OutputData(e.val[Len(e.val) + 1 - j])])],
     dependencies |-> DependenciesData(registry.dependencies)]

\* the config that export_configuration dumps
export_configuration(registry) ==
    [stack_outputs |-> OutputsData(registry.stack_outputs),
     dependencies |-> DependenciesData(registry.dependencies)]

\* data.get(key) for a field holding an optional list
GetOptional(data, key, value) == IF key \in data.keys THEN value ELSE PyNone

OutputFromData(output_data) ==
    StackOutput(output_data.name, output_data.description, output_data.value,
                output_data.export_name,
                GetOptional(output_data, "conditions", output_data.conditions))

DependencyFromData(dep_data) ==
    StackDependency(dep_data.stack_name, dep_data.required_outputs,
                    GetOptional(dep_data, "optional_outputs", dep_data.optional_outputs))

RECURSIVE ImportOutputs(_, _)
ImportOutputs(registry, entries) ==
    IF Len(entries) = 0 THEN registry
    ELSE LET e == Head(entries)
             outputs == [j \in 1..Len(e.val) |-> OutputFromData(e.val[j])]
         IN  ImportOutputs(register_stack_outputs(registry, e.key, outputs), Tail(entries))

\* the two dependency loops, flattened to (stack_name, dep_data) pairs
RECURSIVE ImportDependencies(_, _)
ImportDependencies(registry, pairs) ==
    IF Len(pairs) = 0 THEN registry
    ELSE ImportDependencies(
             register_dependency(registry, Head(pairs)[1], DependencyFromData(Head(pairs)[2])),
             Tail(pairs))

\* faulty variant: the dependency lists are emptied before the import
import_configuration_replaces(registry, loaded) ==
    ImportDependencies(
        ImportOutputs([registry EXCEPT !.dependencies = <<>>], loaded.stack_outputs),
        Concat([i \in 1..Len(loaded.dependencies) |->
                   [j \in 1..Len(loaded.dependencies[i].val) |->
                       <<loaded.dependencies[i].key, loaded.dependencies[i].val[j]>>]]))

\* import_configuration of the loaded config into the given registry
import_configuration(registry, loaded) ==
    ImportDependencies(
        ImportOutputs(registry, loaded.stack_outputs),
        Concat([i \in 1..Len(loaded.dependencies) |->
                   [j \in 1..Len(loaded.dependencies[i].val) |->
                       <<loaded.dependencies[i].key, loaded.dependencies[i].val[j]>>]]))

(***************************************************************************)
(* State                                                                   *)
(***************************************************************************)
VARIABLES
    config,             \* the parsed configuration handed to the validators
    pc,                 \* position of the validator run
    errors,             \* ConfigValidator.errors
    warnings,           \* ConfigValidator.warnings
    valid,              \* the local variable valid of validate_all
    ret,                \* what validate_all returned: "none", "True", "False"
    circular_deps,      \* result of ConfigValidator.detect_circular_dependencies
    dv_pc,              \* position of the DependencyValidator run
    dv_circular_deps,   \* result of DependencyValidator.detect_circular_dependencies
    dv_results,         \* result of DependencyValidator.validate_all_stacks
    run,                \* which call of validate_all on this validator: 1 or 2
    first_errors,       \* self.errors when the first call returned
    first_warnings,     \* self.warnings when the first call returned
    opc,                \* position of run_comprehensive_validation
    parameters_path,    \* TRUE when a parameters file was supplied
    syntax_results,     \* slot of the syntax pass
    parameter_results,  \* slot of the parameter pass
    wa_results,         \* slot of the Well-Architected pass
    summary,            \* the ValidationSummary returned
    raised_in,          \* the passes whose except clause ran
    mpc,                \* position of the CrossStackManager scenario
    manager,            \* the manager's stack_outputs and dependencies
    calls,              \* the registration calls made on the manager, in order
    exported,           \* the config written by export_configuration
    restored,           \* the second manager, which imports the config
    exit_code,          \* the status main exits with: 0 or 1, NotExited before
    probe,              \* the top-level has_path call of a cycle probe
    hp_pc,              \* position of the probe: "call", "loop", "return", "returned"
    hp_call,            \* the arguments of the has_path call being entered
    hp_frames,          \* the has_path activations inside their for loop
    hp_explored,        \* the stacks whose for loop was entered, in order
    hp_ret,             \* the value being returned: "none", TRUE or FALSE
    hp_appended         \* what the probe appended to circular_deps

vars == <<config, pc, errors, warnings, valid, ret, circular_deps, dv_pc,
          dv_circular_deps, dv_results, run, first_errors, first_warnings, opc,
          parameters_path, syntax_results, parameter_results, wa_results,
          summary, raised_in, mpc, manager, calls, exported, restored,
          exit_code, probe, hp_pc, hp_call, hp_frames, hp_explored, hp_ret,
          hp_appended>>

manager_vars == <<mpc, manager, calls, exported, restored>>
main_vars == <<exit_code>>
probe_vars == <<probe, hp_pc, hp_call, hp_frames, hp_explored, hp_ret, hp_appended>>
rerun_vars == <<run, first_errors, first_warnings>>
validator_vars == <<config, pc, errors, warnings, valid, ret, circular_deps,
                    dv_pc, dv_circular_deps, dv_results, rerun_vars>>
orchestrator_vars == <<opc, parameters_path, syntax_results, parameter_results,
                       wa_results, summary, raised_in>>

Config(sections, stack_outputs, dependencies) ==
    [sections |-> sections,
     stack_outputs |-> IF "stack_outputs" \in sections THEN stack_outputs ELSE <<>>,
     dependencies |-> IF "dependencies" \in sections THEN dependencies ELSE <<>>]

BothSections == {"stack_outputs", "dependencies"}
NoSlot == [status |-> "NONE"]

(***************************************************************************)
(* Configurations the validators are run on                                *)
(***************************************************************************)
AllOutputKeys == Range(OutputFields)
RequiredDepKeys == Range(DepFields)

\* a dependency entry with every required field; with_optional tells
\* whether the optional_outputs key is present
WellFormedDep(target, required, with_optional, optional) ==
    Dependency(IF with_optional THEN RequiredDepKeys \cup {"optional_outputs"}
               ELSE RequiredDepKeys,
               target, required, optional, FALSE)

\* a dict over the given keys, inserted in the order of StackNames
\* f[k].present tells whether k is a key
DictInNameOrder(f) ==
    LET ks == SelectSeq(StackNames, LAMBDA k : k \in DOMAIN f /\ f[k].present)
    IN  [i \in 1..Len(ks) |-> Entry(ks[i], f[ks[i]].val)]

MaybeKey(vals) ==
    {[present |-> FALSE, val |-> <<>>]} \cup {[present |-> TRUE, val |-> v] : v \in vals}

\* dependency graphs: up to MaxEdges dependency entries, each stack's list
\* holding its entries in their order; keys: the stacks that are keys even
\* with an empty list
GraphOf(edges, keys) ==
    DictInNameOrder([k \in Stacks |->
        LET mine == SelectSeq(edges, LAMBDA e : e[1] = k)
        IN  [present |-> k \in keys \/ Len(mine) > 0,
             val |-> [i \in 1..Len(mine) |-> WellFormedDep(mine[i][2], <<>>, FALSE, <<>>)]]])

GraphDependencies ==
    {GraphOf(edges, keys) : edges \in SeqsUpTo(Stacks \X Stacks, MaxEdges),
                            keys \in SUBSET Stacks}

GraphConfigs == {Config(BothSections, <<>>, d) : d \in GraphDependencies}

\* export collisions: the stacks in any insertion order, each with up to
\* MaxOutputs outputs, MaxOutputs + 1 outputs in all
CollisionOutputs ==
    LET outs == SeqsUpTo({Output(AllOutputKeys, "X", e) : e \in {ExportVpc, ExportSg}},
                         MaxOutputs)
        key_orders == UNION {Orderings(S) : S \in SUBSET Stacks}
        total(v) == Sum([i \in 1..Len(v) |-> Len(v[i])])
    IN  UNION {{[i \in 1..Len(ks) |-> Entry(ks[i], v[i])] :
                    v \in {w \in [1..Len(ks) -> outs] : total(w) <= MaxOutputs + 1}}
               : ks \in key_orders}

CollisionConfigs == {Config(BothSections, so, <<>>) : so \in CollisionOutputs}

\* output/dependency consistency: the first stack depends on the second,
\* which may have outputs, and on the third, which has none
DepSize(dep) == Len(dep.required_outputs) + Len(dep.optional_outputs)

RECURSIVE SumSizes(_)
SumSizes(deps) == IF Len(deps) = 0 THEN 0 ELSE DepSize(Head(deps)) + SumSizes(Tail(deps))

ConsistencyConfigs ==
    LET outs == SeqsUpTo({Output(AllOutputKeys, "X", ExportVpc),
                          Output(AllOutputKeys, "Y", ExportSg)}, MaxOutputs)
        lists == SeqsUpTo(Names, MaxList)
        deps == {d \in {WellFormedDep(t, r, Len(o) > 0, o) :
                            t \in {StackNames[2], StackNames[3]}, r \in lists,
                            o \in lists} : DepSize(d) <= MaxList}
        \* several entries: each lists a name
        dep_lists == {l \in SeqsUpTo(deps, MaxList) :
                         /\ SumSizes(l) <= MaxList
                         /\ Len(l) > 1 => \A i \in 1..Len(l) : DepSize(l[i]) > 0}
        so(m) == DictInNameOrder([k \in {StackNames[2]} |-> m])
    IN  {Config(BothSections, so(m), <<Entry(StackNames[1], l)>>) :
             m \in MaybeKey(outs), l \in dep_lists}

\* entries with fields missing, optional_outputs null, sections missing
MalformedConfigs ==
    LET outs == {<<Output(k, "X", e)>> : k \in SUBSET AllOutputKeys,
                                          e \in {ExportVpc, ExportBare, EmptyExport}}
        deps == {<<Dependency(k, StackNames[2], <<"X">>, <<"Y">>, n)>> :
                     k \in SUBSET (RequiredDepKeys \cup {"optional_outputs"}),
                     n \in BOOLEAN}
    IN  {Config(s, <<Entry(StackNames[2], o)>>, <<Entry(StackNames[1], d)>>) :
             s \in SUBSET BothSections, o \in outs, d \in deps}

Configs == GraphConfigs \cup CollisionConfigs \cup ConsistencyConfigs \cup MalformedConfigs

(***************************************************************************)
(* ConfigValidator.validate_all on a freshly constructed validator, one    *)
(* action per check it calls, and DependencyValidator's cycle detection    *)
(* on the same configuration.                                              *)
(***************************************************************************)
NoConfig == [stack_outputs |-> <<>>, dependencies |-> <<>>]

ManagerIdle ==
    /\ mpc = "idle"
    /\ manager = EmptyRegistry
    /\ calls = <<>>
    /\ exported = NoConfig
    /\ restored = EmptyRegistry

\* exit_code while main has not exited
NotExited == -1

MainIdle == exit_code = NotExited

NoProbe == [kind |-> "", start |-> "", end |-> ""]
NoCall == [start |-> "", visited |-> {}, path |-> <<>>]

ProbeIdle ==
    /\ probe = NoProbe
    /\ hp_pc = "idle"
    /\ hp_call = NoCall
    /\ hp_frames = <<>>
    /\ hp_explored = <<>>
    /\ hp_ret = "none"
    /\ hp_appended = <<>>

OrchestratorIdle ==
    /\ opc = "idle"
    /\ parameters_path = FALSE
    /\ syntax_results = NoSlot
    /\ parameter_results = NoSlot
    /\ wa_results = NoSlot
    /\ summary = NoSlot
    /\ raised_in = {}

Init ==
    /\ config \in Configs
    /\ pc = "start"
    /\ errors = <<>>
    /\ warnings = <<>>
    /\ valid = TRUE
    /\ ret = "none"
    /\ circular_deps = <<>>
    /\ dv_pc = "start"
    /\ dv_circular_deps = <<>>
    /\ dv_results = <<>>
    /\ run = 1
    /\ first_errors = <<>>
    /\ first_warnings = <<>>
    /\ OrchestratorIdle
    /\ ManagerIdle
    /\ MainIdle
    /\ ProbeIdle

Returned(v) == IF v THEN "True" ELSE "False"

\* if not self.validate_structure(config): return False
ValidateStructure ==
    /\ pc = "start"
    /\ LET r == validate_structure(config)
       IN  /\ errors' = errors \o r.errors
           /\ pc' = IF r.valid THEN "stack_outputs" ELSE "done"
           /\ ret' = IF r.valid THEN ret ELSE Returned(FALSE)
    /\ UNCHANGED <<config, warnings, valid, circular_deps, dv_pc,
                   dv_circular_deps, dv_results>>
    /\ UNCHANGED <<rerun_vars, orchestrator_vars, manager_vars, main_vars, probe_vars>>

\* a check of validate_all: its diagnostics are appended, valid is cleared
\* when it returns False, an exception leaves validate_all
RunCheck(at, r, next) ==
    /\ pc = at
    /\ errors' = errors \o r.errors
    /\ warnings' = warnings \o r.warnings
    /\ valid' = IF r.raised THEN valid ELSE (valid /\ r.valid)
    /\ pc' = IF r.raised THEN "raised" ELSE next
    /\ UNCHANGED <<config, ret, circular_deps, dv_pc, dv_circular_deps, dv_results>>
    /\ UNCHANGED <<rerun_vars, orchestrator_vars, manager_vars, main_vars, probe_vars>>

ValidateStackOutputs ==
    RunCheck("stack_outputs", validate_stack_outputs(config.stack_outputs), "dependencies")

ValidateDependencies ==
    RunCheck("dependencies", validate_dependencies(config.dependencies), "consistency")

ValidateConsistency ==
    RunCheck("consistency", validate_output_dependency_consistency(config), "uniqueness")

ValidateUniqueness ==
    RunCheck("uniqueness", validate_export_name_uniqueness(config.stack_outputs), "cycles")

\* the cycle check and the return of validate_all; the set all_stacks is
\* iterated in an order that depends on the process's string hashing
DetectCycles ==
    /\ pc = "cycles"
    /\ \E order \in Orderings(AllStacks(config.dependencies)) :
          LET cycles == detect_circular_dependencies(config.dependencies, order)
              v == IF Len(cycles) > 0 THEN FALSE ELSE valid
          IN  /\ circular_deps' = cycles
              /\ errors' = errors \o [i \in 1..Len(cycles) |-> CycleError(cycles[i])]
              /\ valid' = v
              /\ ret' = Returned(v)
              /\ config' = [config EXCEPT !.dependencies =
                                dependencies_after_detection(@, order)]
    /\ pc' = "done"
    /\ UNCHANGED <<warnings, dv_pc, dv_circular_deps, dv_results>>
    /\ UNCHANGED <<rerun_vars, orchestrator_vars, manager_vars, main_vars, probe_vars>>

\* DependencyValidator.detect_circular_dependencies(config), run on the
\* configuration once the ConfigValidator run is over
DependencyValidatorDetect ==
    /\ pc \in {"done", "raised"}
    /\ dv_pc = "start"
    /\ IF dv_raises(config.dependencies)
       THEN /\ dv_pc' = "raised"
            /\ UNCHANGED dv_circular_deps
       ELSE \E order \in Orderings(AllStacks(config.dependencies)) :
               /\ dv_circular_deps' =
                      dv_detect_circular_dependencies(config.dependencies, order)
               /\ dv_pc' = "done"
    /\ UNCHANGED <<config, pc, errors, warnings, valid, ret, circular_deps,
                   dv_results>>
    /\ UNCHANGED <<rerun_vars, orchestrator_vars, manager_vars, main_vars, probe_vars>>

Next ==
    \/ ValidateStructure
    \/ ValidateStackOutputs
    \/ ValidateDependencies
    \/ ValidateConsistency
    \/ ValidateUniqueness
    \/ DetectCycles
    \/ DependencyValidatorDetect

Spec == Init /\ [][Next]_vars

(***************************************************************************)
(* validate_all called a second time on the same ConfigValidator and the   *)
(* same configuration.  self.errors and self.warnings are assigned in      *)
(* __init__ only; valid and circular_deps are locals of each call.         *)
(***************************************************************************)
ValidateAllAgain ==
    /\ pc = "done"
    /\ run = 1
    /\ run' = 2
    /\ first_errors' = errors
    /\ first_warnings' = warnings
    /\ pc' = "start"
    /\ valid' = TRUE
    /\ ret' = "none"
    /\ circular_deps' = <<>>
    /\ UNCHANGED <<config, errors, warnings, dv_pc, dv_circular_deps, dv_results>>
    /\ UNCHANGED <<orchestrator_vars, manager_vars, main_vars, probe_vars>>

NextTwice ==
    \/ ValidateStructure
    \/ ValidateStackOutputs
    \/ ValidateDependencies
    \/ ValidateConsistency
    \/ ValidateUniqueness
    \/ DetectCycles
    \/ ValidateAllAgain

SpecTwice == Init /\ [][NextTwice]_vars

(***************************************************************************)
(* DependencyValidator.validate_all_stacks on configurations whose export  *)
(* names break the naming convention, next to ConfigValidator.validate_all *)
(* on the same configuration.                                              *)
(***************************************************************************)
ExportNoEnvironment == ExportName(TRUE, FALSE, "SG-ID")

\* two stacks with one output each, under dependency graphs with and
\* without a cycle
NamingConfigs ==
    LET a == StackNames[1]
        b == StackNames[2]
        exports == {ExportVpc, ExportBare, ExportNoEnvironment}
        graphs == {<<>>, <<<<a, b>>>>, <<<<b, a>>>>, <<<<a, b>>, <<b, a>>>>,
                   <<<<a, a>>>>, <<<<a, b>>, <<a, b>>>>}
    IN  {Config(BothSections,
                <<Entry(a, <<Output(AllOutputKeys, "X", e1)>>),
                  Entry(b, <<Output(AllOutputKeys, "Y", e2)>>)>>,
                GraphOf(g, {})) : e1 \in exports, e2 \in exports, g \in graphs}

StackConfigs == MalformedConfigs \cup NamingConfigs

\* every stack gets the same answer from describe_stacks
AwsAnswers ==
    {StackAbsent, AccessDenied,
     DescribeStacks("stack", "ROLLBACK_COMPLETE", {}),
     DescribeStacks("stack", "CREATE_COMPLETE", {}),
     DescribeStacks("stack", "CREATE_COMPLETE", {"X"}),
     DescribeStacks("stack", "UPDATE_COMPLETE", Names)}

AwsEnvironments == {[s \in Stacks |-> answer] : answer \in AwsAnswers}

InitStacks ==
    /\ config \in StackConfigs
    /\ pc = "start"
    /\ errors = <<>>
    /\ warnings = <<>>
    /\ valid = TRUE
    /\ ret = "none"
    /\ circular_deps = <<>>
    /\ dv_pc = "start"
    /\ dv_circular_deps = <<>>
    /\ dv_results = <<>>
    /\ run = 1
    /\ first_errors = <<>>
    /\ first_warnings = <<>>
    /\ OrchestratorIdle
    /\ ManagerIdle
    /\ MainIdle
    /\ ProbeIdle

\* DependencyValidator.validate_all_stacks(config), run on the
\* configuration once the ConfigValidator run is over
ValidateAllStacks ==
    /\ pc \in {"done", "raised"}
    /\ dv_pc = "start"
    /\ \E aws \in AwsEnvironments :
       \E order \in Orderings(AllStacks(config.dependencies)) :
       \E stack_order \in Orderings(AllStacks(config.dependencies)) :
          LET r == validate_all_stacks(config, aws, order, stack_order)
          IN  /\ dv_pc' = IF r.raised THEN "raised" ELSE "validated"
              /\ dv_results' = r.result
    /\ UNCHANGED <<config, pc, errors, warnings, valid, ret, circular_deps,
                   dv_circular_deps>>
    /\ UNCHANGED <<rerun_vars, orchestrator_vars, manager_vars, main_vars, probe_vars>>

NextStacks ==
    \/ ValidateStructure
    \/ ValidateStackOutputs
    \/ ValidateDependencies
    \/ ValidateConsistency
    \/ ValidateUniqueness
    \/ DetectCycles
    \/ ValidateAllStacks

SpecStacks == InitStacks /\ [][NextStacks]_vars

(***************************************************************************)
(* ValidationOrchestrator.run_comprehensive_validation: the three passes   *)
(* in call order, each filling its own slot, then the summary.             *)
(***************************************************************************)
ValidatorIdle ==
    /\ config = Config({}, <<>>, <<>>)
    /\ pc = "idle"
    /\ errors = <<>>
    /\ warnings = <<>>
    /\ valid = TRUE
    /\ ret = "none"
    /\ circular_deps = <<>>
    /\ dv_pc = "idle"
    /\ dv_circular_deps = <<>>
    /\ dv_results = <<>>
    /\ run = 1
    /\ first_errors = <<>>
    /\ first_warnings = <<>>

InitOrch ==
    /\ ValidatorIdle
    /\ ManagerIdle
    /\ MainIdle
    /\ ProbeIdle
    /\ opc = "syntax"
    /\ parameters_path \in BOOLEAN
    /\ syntax_results = NoSlot
    /\ parameter_results = NoSlot
    /\ wa_results = NoSlot
    /\ summary = NoSlot
    /\ raised_in = {}

\* what the syntax pass meets: an exception, a template that cannot be
\* loaded (load_template returns None with one error issue), or a validated
\* template
SyntaxInputs ==
    {[raises |-> TRUE, loaded |-> TRUE, issues |-> <<>>],
     [raises |-> FALSE, loaded |-> FALSE, issues |-> <<"error">>]}
    \cup {[raises |-> FALSE, loaded |-> TRUE, issues |-> i] :
              i \in SeqsUpTo(Severities, MaxIssues)}

RunSyntaxValidation ==
    /\ opc = "syntax"
    /\ \E in \in SyntaxInputs :
          /\ syntax_results' = run_syntax_validation(in.raises, in.loaded, in.issues)
          /\ raised_in' = IF in.raises THEN raised_in \cup {"syntax"} ELSE raised_in
    /\ opc' = "parameter"
    /\ UNCHANGED <<parameters_path, parameter_results, wa_results, summary>>
    /\ UNCHANGED <<validator_vars, manager_vars, main_vars, probe_vars>>

\* what the parameter pass meets when a parameters file is supplied
ParameterInputs ==
    {[outcome |-> o, results |-> <<>>, config_errors |-> 0] :
         o \in {"no_template", "no_parameters", "raises"}}
    \cup {[outcome |-> "ok", results |-> r, config_errors |-> c] :
              r \in SeqsUpTo({ParamResult(v, w) : v \in BOOLEAN, w \in 0..1}, MaxResults),
              c \in 0..1}

RunParameterValidation ==
    /\ opc = "parameter"
    /\ \E in \in IF parameters_path THEN ParameterInputs
                 ELSE {[outcome |-> "ok", results |-> <<>>, config_errors |-> 0]} :
          /\ parameter_results' =
                 run_parameter_validation(parameters_path, in.outcome, in.results,
                                          in.config_errors)
          /\ raised_in' = IF in.outcome = "raises" THEN raised_in \cup {"parameter"}
                          ELSE raised_in
    /\ opc' = "well_architected"
    /\ UNCHANGED <<parameters_path, syntax_results, wa_results, summary>>
    /\ UNCHANGED <<validator_vars, manager_vars, main_vars, probe_vars>>

\* what the Well-Architected pass meets: an exception, an unreadable
\* template, no Metadata, no compliance information, or compliance entries
WaInput(raises, readable, has_metadata, has_compliance, items) ==
    [raises |-> raises, readable |-> readable, has_metadata |-> has_metadata,
     has_compliance |-> has_compliance, items |-> items]

WaInputs ==
    {WaInput(TRUE, TRUE, TRUE, TRUE, <<>>), WaInput(FALSE, FALSE, TRUE, TRUE, <<>>),
     WaInput(FALSE, TRUE, FALSE, TRUE, <<>>), WaInput(FALSE, TRUE, TRUE, FALSE, <<>>)}
    \cup {WaInput(FALSE, TRUE, TRUE, TRUE, i) : i \in SeqsUpTo(ComplianceItems, MaxIssues)}

RunWellArchitectedValidation ==
    /\ opc = "well_architected"
    /\ \E in \in WaInputs :
          /\ wa_results' = run_well_architected_validation(in.raises, in.readable,
                               in.has_metadata, in.has_compliance, in.items)
          /\ raised_in' = IF in.raises THEN raised_in \cup {"well_architected"}
                          ELSE raised_in
    /\ opc' = "summary"
    /\ UNCHANGED <<parameters_path, syntax_results, parameter_results, summary>>
    /\ UNCHANGED <<validator_vars, manager_vars, main_vars, probe_vars>>

CreateValidationSummary ==
    /\ opc = "summary"
    /\ summary' = create_validation_summary(syntax_results, parameter_results, wa_results)
    /\ opc' = "returned"
    /\ UNCHANGED <<parameters_path, syntax_results, parameter_results, wa_results,
                   raised_in>>
    /\ UNCHANGED <<validator_vars, manager_vars, main_vars, probe_vars>>

NextOrch ==
    \/ RunSyntaxValidation
    \/ RunParameterValidation
    \/ RunWellArchitectedValidation
    \/ CreateValidationSummary

SpecOrch == InitOrch /\ [][NextOrch]_vars

(***************************************************************************)
(* The two command-line programs: main of validate-config.py around        *)
(* validate_all, main of validation-orchestrator.py around                 *)
(* run_comprehensive_validation.  A run is one program or the other.       *)
(***************************************************************************)
\* sys.exit(0 if is_valid else 1)
ExitCodeOfValid(is_valid) == IF is_valid THEN 0 ELSE 1

\* faulty variant: a run with warnings fails the gate
ExitCodeOfStatus_pass_only(overall_status) == IF overall_status = "PASS" THEN 0 ELSE 1

\* exit_code = 0 if summary.overall_status in ['PASS', 'WARNING'] else 1
ExitCodeOfStatus(overall_status) ==
    IF overall_status \in {"PASS", "WARNING"} THEN 0 ELSE 1

\* the exit status of an interpreter left by an uncaught exception
UncaughtException == 1

InitMain == Init \/ InitOrch

\* load_config returned an empty dict: main exits before validate_all
ConfigMainRejectsEmpty ==
    /\ pc = "start"
    /\ config.sections = {}
    /\ exit_code = NotExited
    /\ pc' = "not_run"
    /\ exit_code' = 1
    /\ UNCHANGED <<config, errors, warnings, valid, ret, circular_deps, dv_pc,
                   dv_circular_deps, dv_results>>
    /\ UNCHANGED <<rerun_vars, orchestrator_vars, manager_vars, probe_vars>>

\* validate_all returned or raised: the report is written and main exits
ConfigMainExit ==
    /\ pc \in {"done", "raised"}
    /\ exit_code = NotExited
    /\ exit_code' = IF pc = "raised" THEN UncaughtException
                    ELSE ExitCodeOfValid(ret = "True")
    /\ UNCHANGED <<validator_vars, orchestrator_vars, manager_vars, probe_vars>>

\* run_comprehensive_validation returned the summary: main exits
OrchestratorMainExit ==
    /\ opc = "returned"
    /\ exit_code = NotExited
    /\ exit_code' = ExitCodeOfStatus(summary.overall_status)
    /\ UNCHANGED <<validator_vars, orchestrator_vars, manager_vars, probe_vars>>

NextMain ==
    \/ ValidateStructure
    \/ ValidateStackOutputs
    \/ ValidateDependencies
    \/ ValidateConsistency
    \/ ValidateUniqueness
    \/ DetectCycles
    \/ ConfigMainRejectsEmpty
    \/ ConfigMainExit
    \/ RunSyntaxValidation
    \/ RunParameterValidation
    \/ RunWellArchitectedValidation
    \/ CreateValidationSummary
    \/ OrchestratorMainExit

SpecMain == InitMain /\ [][NextMain]_vars

(***************************************************************************)
(* Structural validation on its own: validate_stack_outputs and            *)
(* validate_dependencies, each called on a freshly constructed             *)
(* ConfigValidator.                                                        *)
(***************************************************************************)
MaxEntries == 2     \* entries in a list handed to structural validation

\* the output lists of one stack: entries with any of the fields missing
StructureOutputs ==
    SeqsUpTo({Output(k, "X", ExportVpc) : k \in SUBSET AllOutputKeys}, MaxEntries)

\* the dependency lists of one stack: entries with any of the fields
\* missing, with required_outputs a list or a number, with optional_outputs
\* a list, a number or null
StructureDependencies ==
    SeqsUpTo({ScalarDependency(k, StackNames[2], n, sc) :
                  k \in SUBSET (RequiredDepKeys \cup {"optional_outputs"}),
                  n \in BOOLEAN, sc \in SUBSET Range(ListFields)},
             MaxEntries)

StructureConfigs ==
    {Config(BothSections, <<Entry(StackNames[1], o)>>, <<>>) : o \in StructureOutputs}
    \cup {Config(BothSections, <<>>, <<Entry(StackNames[1], d)>>) :
              d \in StructureDependencies}

InitStructure ==
    /\ config \in StructureConfigs
    /\ pc = "start"
    /\ errors = <<>>
    /\ warnings = <<>>
    /\ valid = TRUE
    /\ ret = "none"
    /\ circular_deps = <<>>
    /\ dv_pc = "idle"
    /\ dv_circular_deps = <<>>
    /\ dv_results = <<>>
    /\ run = 1
    /\ first_errors = <<>>
    /\ first_warnings = <<>>
    /\ OrchestratorIdle
    /\ ManagerIdle
    /\ MainIdle
    /\ ProbeIdle

\* a call of one check on the fresh validator: what it appended and what
\* it returned
ApplyCheck(r, returned) ==
    /\ pc = "start"
    /\ ~r.raised
    /\ errors' = r.errors
    /\ warnings' = r.warnings
    /\ valid' = r.valid
    /\ ret' = Returned(r.valid)
    /\ pc' = returned
    /\ UNCHANGED <<config, circular_deps, dv_pc, dv_circular_deps, dv_results>>
    /\ UNCHANGED <<rerun_vars, orchestrator_vars, manager_vars, main_vars, probe_vars>>

ApplyValidateStackOutputs ==
    ApplyCheck(validate_stack_outputs(config.stack_outputs), "stack_outputs_returned")

ApplyValidateDependencies ==
    ApplyCheck(validate_dependencies(config.dependencies), "dependencies_returned")

NextStructure ==
    \/ ApplyValidateStackOutputs
    \/ ApplyValidateDependencies

SpecStructure == InitStructure /\ [][NextStructure]_vars

(***************************************************************************)
(* CrossStackManager: registration calls on a new manager, then            *)
(* export_configuration, then import_configuration into a second, empty    *)
(* manager.                                                                *)
(***************************************************************************)
MaxCalls == 3

ManagerStacks == {StackNames[1], StackNames[2]}

OutputX == StackOutput("X", "description of X", "value of X", ExportVpc, PyNone)
OutputY == StackOutput("Y", "description of Y", "value of Y", ExportVpc,
                       PyList(<<"IsProduction">>))
OutputZ == StackOutput("X", "", "value of X", EmptyExport, PyList(<<>>))

\* lists handed to register_stack_outputs; OutputX and OutputY share an
\* export name
OutputLists == {<<>>, <<OutputX>>, <<OutputZ>>, <<OutputX, OutputY>>}

\* dependencies handed to register_dependency: optional_outputs left at its
\* default None, given as the empty list, given with a name
Dependencies ==
    {StackDependency(StackNames[2], <<"X">>, PyNone),
     StackDependency(StackNames[2], <<"X">>, PyList(<<>>)),
     StackDependency(StackNames[1], <<"Y", "X">>, PyList(<<"Y">>))}

NoDependency == StackDependency("", <<>>, PyNone)

Call(op, stack_name, outputs, dependency) ==
    [op |-> op, stack_name |-> stack_name, outputs |-> outputs,
     dependency |-> dependency]

InitManager ==
    /\ ValidatorIdle
    /\ OrchestratorIdle
    /\ MainIdle
    /\ ProbeIdle
    /\ mpc = "registering"
    /\ manager = EmptyRegistry
    /\ calls = <<>>
    /\ exported = NoConfig
    /\ restored = EmptyRegistry

RegisterStackOutputs ==
    /\ mpc = "registering"
    /\ Len(calls) < MaxCalls
    /\ \E stack_name \in ManagerStacks, outputs \in OutputLists :
          /\ manager' = register_stack_outputs(manager, stack_name, outputs)
          /\ calls' = Append(calls, Call("register_stack_outputs", stack_name,
                                         outputs, NoDependency))
    /\ UNCHANGED <<mpc, exported, restored>>
    /\ UNCHANGED <<validator_vars, orchestrator_vars, main_vars, probe_vars>>

RegisterDependency ==
    /\ mpc = "registering"
    /\ Len(calls) < MaxCalls
    /\ \E stack_name \in ManagerStacks, dependency \in Dependencies :
          /\ manager' = register_dependency(manager, stack_name, dependency)
          /\ calls' = Append(calls, Call("register_dependency", stack_name,
                                         <<>>, dependency))
    /\ UNCHANGED <<mpc, exported, restored>>
    /\ UNCHANGED <<validator_vars, orchestrator_vars, main_vars, probe_vars>>

ExportConfiguration ==
    /\ mpc = "registering"
    /\ exported' = export_configuration(manager)
    /\ mpc' = "exported"
    /\ UNCHANGED <<manager, calls, restored>>
    /\ UNCHANGED <<validator_vars, orchestrator_vars, main_vars, probe_vars>>

\* json.load of the file gives back the dumped config
ImportConfiguration ==
    /\ mpc = "exported"
    /\ restored' = import_configuration(restored, exported)
    /\ mpc' = "imported"
    /\ UNCHANGED <<manager, calls, exported>>
    /\ UNCHANGED <<validator_vars, orchestrator_vars, main_vars, probe_vars>>

NextManager ==
    \/ RegisterStackOutputs
    \/ RegisterDependency
    \/ ExportConfiguration
    \/ ImportConfiguration

SpecManager == InitManager /\ [][NextManager]_vars

\* import_configuration called a second time on the same manager with the
\* same file
ImportConfigurationAgain ==
    /\ mpc = "imported"
    /\ restored' = import_configuration(restored, exported)
    /\ mpc' = "imported_twice"
    /\ UNCHANGED <<manager, calls, exported>>
    /\ UNCHANGED <<validator_vars, orchestrator_vars, main_vars, probe_vars>>

NextReimport ==
    \/ RegisterStackOutputs
    \/ RegisterDependency
    \/ ExportConfiguration
    \/ ImportConfiguration
    \/ ImportConfigurationAgain

SpecReimport == InitManager /\ [][NextReimport]_vars

(***************************************************************************)
(* One probe of cycle detection, call by call: a top-level has_path call   *)
(* of ConfigValidator.detect_circular_dependencies (has_path(s, s, set(),  *)
(* [])) or of DependencyValidator.detect_circular_dependencies             *)
(* (has_path(a, b, set())), with its recursive calls.                      *)
(***************************************************************************)
MaxProbeEdges == 4
\* the interpreter's recursion limit, in has_path activations
RecursionLimit == 8

AllPairs ==
    Concat([a \in 1..Len(StackNames) |->
               [b \in 1..Len(StackNames) |-> <<StackNames[a], StackNames[b]>>]])

\* graphs of up to MaxProbeEdges distinct edges
ProbeGraphs ==
    {GraphOf(SelectSeq(AllPairs, LAMBDA e : e \in E), {}) :
         E \in {F \in SUBSET (Stacks \X Stacks) : Cardinality(F) <= MaxProbeEdges}}

Probe(kind, start, end) == [kind |-> kind, start |-> start, end |-> end]

\* the top-level calls the two detectors make on a dependency mapping
Probes(dependencies) ==
    {Probe("ConfigValidator", s, s) :
         s \in {t \in AllStacks(dependencies) : Has(dependencies, t)}}
    \cup {Probe("DependencyValidator", e[1], e[2]) :
              e \in {f \in AllStacks(dependencies) \X AllStacks(dependencies) :
                         f[1] # f[2]}}

HasPathCall(start, visited, path) ==
    [start |-> start, visited |-> visited, path |-> path]
Frame(start, visited, path, i) ==
    [start |-> start, visited |-> visited, path |-> path, i |-> i]

\* if start == end and len(path) > 1 / if start == end
ReachedEnd(kind, call, end) ==
    IF kind = "ConfigValidator"
    THEN call.start = end /\ Len(call.path) > 1
    ELSE call.start = end

\* faulty variant: the visited test is dropped
AlreadyVisited_never(call) == FALSE

\* if start in visited
AlreadyVisited(call) == call.start \in call.visited

InitProbe ==
    /\ config \in {Config(BothSections, <<>>, d) : d \in ProbeGraphs}
    /\ pc = "idle"
    /\ errors = <<>>
    /\ warnings = <<>>
    /\ valid = TRUE
    /\ ret = "none"
    /\ circular_deps = <<>>
    /\ dv_pc = "idle"
    /\ dv_circular_deps = <<>>
    /\ dv_results = <<>>
    /\ run = 1
    /\ first_errors = <<>>
    /\ first_warnings = <<>>
    /\ OrchestratorIdle
    /\ ManagerIdle
    /\ MainIdle
    /\ probe \in Probes(config.dependencies)
    /\ hp_pc = "call"
    /\ hp_call = HasPathCall(probe.start, {}, <<>>)
    /\ hp_frames = <<>>
    /\ hp_explored = <<>>
    /\ hp_ret = "none"
    /\ hp_appended = <<>>

\* a has_path call is entered: the two base cases, then visited.add(start)
\* and the for loop over dependencies[start]
HasPathEnter ==
    /\ hp_pc = "call"
    /\ IF ReachedEnd(probe.kind, hp_call, probe.end)
       THEN /\ hp_appended' = IF probe.kind = "ConfigValidator"
                              THEN Append(hp_appended, hp_call.path \o <<probe.end>>)
                              ELSE hp_appended
            /\ hp_ret' = "True"
            /\ hp_pc' = "return"
            /\ UNCHANGED <<hp_frames, hp_explored>>
       ELSE IF AlreadyVisited(hp_call)
       THEN /\ hp_ret' = "False"
            /\ hp_pc' = "return"
            /\ UNCHANGED <<hp_frames, hp_explored, hp_appended>>
       ELSE IF Len(hp_frames) >= RecursionLimit
       THEN \* RecursionError
            /\ hp_pc' = "raised"
            /\ UNCHANGED <<hp_frames, hp_explored, hp_ret, hp_appended>>
       ELSE /\ hp_frames' = Append(hp_frames,
                                   Frame(hp_call.start,
                                         hp_call.visited \cup {hp_call.start},
                                         hp_call.path, 1))
            /\ hp_explored' = IF Has(config.dependencies, hp_call.start)
                              THEN Append(hp_explored, hp_call.start)
                              ELSE hp_explored
            /\ hp_pc' = "loop"
            /\ UNCHANGED <<hp_ret, hp_appended>>
    /\ hp_call' = NoCall
    /\ UNCHANGED <<probe, validator_vars, orchestrator_vars, manager_vars, main_vars>>

\* the for loop of the innermost activation: the recursive call for the
\* next entry with a copy of visited, or return False after the last one
HasPathLoop ==
    /\ hp_pc = "loop"
    /\ LET f == hp_frames[Len(hp_frames)]
           deps == IF Has(config.dependencies, f.start)
                   THEN Get(config.dependencies, f.start) ELSE <<>>
       IN  IF f.i > Len(deps)
           THEN /\ hp_frames' = SubSeq(hp_frames, 1, Len(hp_frames) - 1)
                /\ hp_ret' = "False"
                /\ hp_pc' = "return"
                /\ UNCHANGED hp_call
           ELSE /\ hp_frames' = [hp_frames EXCEPT ![Len(hp_frames)].i = f.i + 1]
                /\ UNCHANGED hp_ret
                /\ IF "stack_name" \in deps[f.i].keys
                   THEN /\ hp_call' =
                               HasPathCall(deps[f.i].stack_name, f.visited,
                                           IF probe.kind = "ConfigValidator"
                                           THEN f.path \o <<f.start>> ELSE <<>>)
                        /\ hp_pc' = "call"
                   ELSE UNCHANGED <<hp_call, hp_pc>>
    /\ UNCHANGED <<probe, hp_explored, hp_appended>>
    /\ UNCHANGED <<validator_vars, orchestrator_vars, manager_vars, main_vars>>

\* a call returned: the top-level call ends the probe, True makes the
\* caller return True, False lets the caller's loop go on
HasPathReturn ==
    /\ hp_pc = "return"
    /\ IF Len(hp_frames) = 0
       THEN /\ hp_pc' = "returned"
            /\ UNCHANGED <<hp_frames, hp_ret>>
       ELSE IF hp_ret = "True"
       THEN /\ hp_frames' = SubSeq(hp_frames, 1, Len(hp_frames) - 1)
            /\ UNCHANGED <<hp_pc, hp_ret>>
       ELSE /\ hp_pc' = "loop"
            /\ hp_ret' = "none"
            /\ UNCHANGED hp_frames
    /\ UNCHANGED <<probe, hp_call, hp_explored, hp_appended>>
    /\ UNCHANGED <<validator_vars, orchestrator_vars, manager_vars, main_vars>>

NextProbe ==
    \/ HasPathEnter
    \/ HasPathLoop
    \/ HasPathReturn

SpecProbe == InitProbe /\ [][NextProbe]_vars

\* the interpreter runs the single thread on until the call returns
SpecProbeFair == SpecProbe /\ WF_vars(NextProbe)

(***************************************************************************)
(* The dependency graph, stated independently of the detectors             *)
(***************************************************************************)
\* edges dependent stack -> target stack
Edges(dependencies) ==
    {<<p.stack, p.dep.stack_name>> :
         p \in {q \in Range(DependencyPairs(dependencies)) : "stack_name" \in q.dep.keys}}

RECURSIVE Closure(_, _)
Closure(R, k) ==
    IF k = 0 THEN R
    ELSE Closure(R \cup {<<q[1][1], q[2][2]>> : q \in {r \in R \X R : r[1][2] = r[2][1]}},
                 k - 1)

\* pairs <<a, b>> with a path of length >= 1 from a to b
Reach(dependencies) == Closure(Edges(dependencies), Cardinality(Stacks))

Acyclic(dependencies) == \A e \in Reach(dependencies) : e[1] # e[2]

\* validate_all went through every check and returned
FullRun == pc = "done" /\ config.sections = BothSections

CycleErrors == SelectSeq(errors, LAMBDA d : d.kind = "cycle")

\* a reported cycle s0, ..., sk, s0 without its closing element
CycleBody(cycle) == SubSeq(cycle, 1, Len(cycle) - 1)

IsRotation(c, d) ==
    LET a == CycleBody(c)
        b == CycleBody(d)
        n == Len(a)
    IN  /\ Len(b) = n
        /\ n > 0
        /\ \E r \in 0..(n - 1) : \A i \in 1..n : a[i] = b[((i - 1 + r) % n) + 1]

Ring3 ==
    <<Entry(StackNames[1], <<WellFormedDep(StackNames[2], <<>>, FALSE, <<>>)>>),
      Entry(StackNames[2], <<WellFormedDep(StackNames[3], <<>>, FALSE, <<>>)>>),
      Entry(StackNames[3], <<WellFormedDep(StackNames[1], <<>>, FALSE, <<>>)>>)>>

(***************************************************************************)
(* C1: for the single cycle A->B->C->A the ConfigValidator cycle detection *)
(* reports exactly one cycle, containing {A,B,C}; no two reported cycles   *)
(* are rotations of one another (so A->B->A is not reported again as       *)
(* B->A->B).                                                               *)
(***************************************************************************)
C1_NoRotatedDuplicates ==
    FullRun =>
        /\ config.dependencies = Ring3 =>
               /\ Len(circular_deps) = 1
               /\ Range(circular_deps[1]) = {StackNames[1], StackNames[2], StackNames[3]}
        /\ \A i, j \in 1..Len(circular_deps) :
               i # j => ~IsRotation(circular_deps[i], circular_deps[j])

(***************************************************************************)
(* C2: when the dependency graph has no directed cycle, both cycle         *)
(* detectors report no cycle and validate_all records no cycle error.      *)
(***************************************************************************)
C2_AcyclicReportsNothing ==
    Acyclic(config.dependencies) =>
        /\ circular_deps = <<>>
        /\ Len(CycleErrors) = 0
        /\ dv_circular_deps = <<>>

\* both detectors ran on the chain A->B, B->C and reported nothing
C2_Witness ==
    /\ FullRun
    /\ dv_pc = "done"
    /\ Edges(config.dependencies) =
           {<<StackNames[1], StackNames[2]>>, <<StackNames[2], StackNames[3]>>}
    /\ circular_deps = <<>>
    /\ dv_circular_deps = <<>>

(***************************************************************************)
(* C3: a stack that depends on itself is reported as a cycle by cycle      *)
(* detection and makes validate_all return False.                          *)
(***************************************************************************)
C3_SelfDependencyReported ==
    FullRun =>
        \A e \in Edges(config.dependencies) :
            e[1] = e[2] =>
                /\ \E i \in 1..Len(circular_deps) : e[1] \in Range(circular_deps[i])
                /\ ret = "False"

(***************************************************************************)
(* Vocabulary of the consistency and uniqueness properties                 *)
(***************************************************************************)
\* the consistency check returned, the uniqueness check returned
ConsistencyDone == pc \in {"uniqueness", "cycles"} \/ FullRun
UniquenessDone == pc = "cycles" \/ FullRun

Occurrences(list, v) == Cardinality({i \in 1..Len(list) : list[i] = v})

\* the dependency entries of stack a that name b as their target
DepsOn(a, b) ==
    SelectSeq(DependencyPairs(config.dependencies),
              LAMBDA p : p.stack = a /\ "stack_name" \in p.dep.keys /\ p.dep.stack_name = b)

\* the target a dependency entry names; None when it has no stack_name
TargetOf(dep) == IF "stack_name" \in dep.keys THEN dep.stack_name ELSE "None"

\* output names defined on a stack with registered outputs
DefinedOn(b) ==
    LET outputs == Get(config.stack_outputs, b)
    IN  {outputs[i].name : i \in {j \in 1..Len(outputs) : "name" \in outputs[j].keys}}

SumOver(s, F(_)) == Sum([i \in 1..Len(s) |-> F(s[i])])

\* diagnostics of the consistency check that refer to output n of target b
RefersTo(d, n, b) ==
    d.kind \in {"required_missing", "optional_missing"} /\ d.output = n /\ d.target = b

(***************************************************************************)
(* C4 as stated: where the target B has registered outputs, exactly one    *)
(* error for each required output name that is not defined on B, and no    *)
(* diagnostic for a name that is defined on B.                             *)
(***************************************************************************)
C4_OneErrorPerRequiredName ==
    ConsistencyDone =>
        \A a \in Keys(config.dependencies), b \in Keys(config.stack_outputs), n \in Names :
            IF n \in DefinedOn(b)
            THEN /\ Occurrences(errors, RequiredMissing(a, n, b)) = 0
                 /\ \A i \in 1..Len(warnings) : ~RefersTo(warnings[i], n, b)
            ELSE Occurrences(errors, RequiredMissing(a, n, b)) =
                     Cardinality({i \in 1..Len(DepsOn(a, b)) :
                                      n \in Range(DepsOn(a, b)[i].dep.required_outputs)})

(***************************************************************************)
(* C4 amended: where the target B has registered outputs, exactly one      *)
(* error for each entry of a required_outputs list whose name is not       *)
(* defined on B (a name listed twice is reported twice), and no diagnostic *)
(* for a name that is defined on B.                                        *)
(***************************************************************************)
C4_OneErrorPerRequiredEntry ==
    ConsistencyDone =>
        \A a \in Keys(config.dependencies), b \in Keys(config.stack_outputs), n \in Names :
            IF n \in DefinedOn(b)
            THEN /\ Occurrences(errors, RequiredMissing(a, n, b)) = 0
                 /\ \A i \in 1..Len(warnings) : ~RefersTo(warnings[i], n, b)
            ELSE Occurrences(errors, RequiredMissing(a, n, b)) =
                     SumOver(DepsOn(a, b),
                             LAMBDA p : Occurrences(p.dep.required_outputs, n))

\* A requires X of B, B defines only Y: one error about X, nothing about Y
C4_Witness ==
    /\ ConsistencyDone
    /\ Has(config.stack_outputs, StackNames[2])
    /\ DefinedOn(StackNames[2]) = {"Y"}
    /\ config.dependencies =
           <<Entry(StackNames[1], <<WellFormedDep(StackNames[2], <<"X">>, FALSE, <<>>)>>)>>
    /\ Occurrences(errors, RequiredMissing(StackNames[1], "X", StackNames[2])) = 1
    /\ \A i \in 1..Len(errors) : errors[i].output # "Y"

(***************************************************************************)
(* C5 as stated: where the target B has registered outputs, each optional  *)
(* output name not defined on B produces exactly one warning and no error, *)
(* and validate_all returns True when no check produced an error.          *)
(***************************************************************************)
C5_OneWarningPerOptionalName ==
    /\ ConsistencyDone =>
        /\ \A a \in Keys(config.dependencies), b \in Keys(config.stack_outputs), n \in Names :
               n \notin DefinedOn(b) =>
                   Occurrences(warnings, OptionalMissing(a, n, b)) =
                       Cardinality({i \in 1..Len(DepsOn(a, b)) :
                                        n \in Range(DepsOn(a, b)[i].dep.optional_outputs)})
        /\ \A i \in 1..Len(errors) : errors[i].kind # "optional_missing"
    /\ (FullRun /\ Len(errors) = 0) => ret = "True"

(***************************************************************************)
(* C5 amended: where the target B has registered outputs, each entry of an *)
(* optional_outputs list whose name is not defined on B produces exactly   *)
(* one warning (a name listed twice is warned about twice) and no error,   *)
(* and validate_all returns True when no check produced an error.          *)
(***************************************************************************)
C5_OneWarningPerOptionalEntry ==
    /\ ConsistencyDone =>
        /\ \A a \in Keys(config.dependencies), b \in Keys(config.stack_outputs), n \in Names :
               n \notin DefinedOn(b) =>
                   Occurrences(warnings, OptionalMissing(a, n, b)) =
                       SumOver(DepsOn(a, b),
                               LAMBDA p : Occurrences(p.dep.optional_outputs, n))
        /\ \A i \in 1..Len(errors) : errors[i].kind # "optional_missing"
    /\ (FullRun /\ Len(errors) = 0) => ret = "True"

\* X is optional for A and missing on B: one warning, the run is valid
C5_Witness ==
    /\ FullRun
    /\ Has(config.stack_outputs, StackNames[2])
    /\ DefinedOn(StackNames[2]) = {"Y"}
    /\ config.dependencies =
           <<Entry(StackNames[1], <<WellFormedDep(StackNames[2], <<>>, TRUE, <<"X">>)>>)>>
    /\ Occurrences(warnings, OptionalMissing(StackNames[1], "X", StackNames[2])) = 1
    /\ Len(errors) = 0
    /\ ret = "True"

\* the dependency entries naming target t, and the diagnostics about them
EntriesNaming(t) ==
    Cardinality({i \in 1..Len(DependencyPairs(config.dependencies)) :
                     TargetOf(DependencyPairs(config.dependencies)[i].dep) = t})

NamedTargets == {TargetOf(p.dep) : p \in Range(DependencyPairs(config.dependencies))}

OwnersOf(e) ==
    Concat([k \in 1..Len(config.stack_outputs) |->
        LET outs == SelectSeq(config.stack_outputs[k].val,
                              LAMBDA o : "export_name" \in o.keys /\ o.export_name = e)
        IN  [i \in 1..Len(outs) |-> config.stack_outputs[k].key]])

DuplicateErrorsOf(e) ==
    SelectSeq(errors, LAMBDA d : d.kind = "export_duplicate" /\ d.export = e)

C7_OneErrorPerLaterCollision ==
    UniquenessDone =>
        \A e \in {ExportVpc, ExportSg, ExportBare} :
            LET owners == OwnersOf(e)
                dups == DuplicateErrorsOf(e)
            IN  /\ Len(dups) = (IF Len(owners) >= 2 THEN Len(owners) - 1 ELSE 0)
                /\ \A j \in 1..Len(dups) :
                       /\ dups[j].stack = owners[j + 1]
                       /\ dups[j].target = owners[1]

\* three stacks collide on one name: two errors
C7_Witness ==
    /\ UniquenessDone
    /\ OwnersOf(ExportVpc) = <<StackNames[3], StackNames[1], StackNames[2]>>
    /\ DuplicateErrorsOf(ExportVpc) =
           <<ExportDuplicate(ExportVpc, StackNames[1], StackNames[3]),
             ExportDuplicate(ExportVpc, StackNames[2], StackNames[3])>>

(***************************************************************************)
(* C8: validate_all on a fresh validator returns True exactly when no      *)
(* error was recorded during the run; warnings never make it return False. *)
(***************************************************************************)
C8_ValidIffNoErrors ==
    pc = "done" => (ret = "True" <=> Len(errors) = 0)

\* a run that recorded warnings only and returned True
C8_Witness ==
    /\ FullRun
    /\ Len(warnings) > 0
    /\ Len(errors) = 0
    /\ ret = "True"

(***************************************************************************)
(* C9: the overall status is FAIL if a pass has status FAIL or ERROR,      *)
(* otherwise WARNING if the warning counts of the passes sum to more than  *)
(* 0, otherwise PASS.                                                      *)
(***************************************************************************)
PassStatuses ==
    {syntax_results.status, parameter_results.status, wa_results.status}

AggregationRule ==
    IF PassStatuses \cap {"FAIL", "ERROR"} # {} THEN "FAIL"
    ELSE IF syntax_results.warning_count + parameter_results.warning_count
            + wa_results.warning_count > 0 THEN "WARNING"
    ELSE "PASS"

C9_OverallStatusFollowsRule ==
    opc = "returned" => summary.overall_status = AggregationRule

\* statuses PASS, SKIPPED, PASS with warning counts 2, 0, 0 give WARNING
C9_Witness ==
    /\ opc = "returned"
    /\ syntax_results.status = "PASS" /\ syntax_results.warning_count = 2
    /\ parameter_results.status = "SKIPPED" /\ parameter_results.warning_count = 0
    /\ wa_results.status = "PASS" /\ wa_results.warning_count = 0
    /\ summary.overall_status = "WARNING"

(***************************************************************************)
(* C10: without a parameters file the parameter pass is SKIPPED with no    *)
(* errors and no warnings, and a SKIPPED pass leaves the overall status    *)
(* what the two other passes alone give.                                   *)
(***************************************************************************)
StatusOfOthers ==
    IF {syntax_results.status, wa_results.status} \cap {"FAIL", "ERROR"} # {} THEN "FAIL"
    ELSE IF syntax_results.warning_count + wa_results.warning_count > 0 THEN "WARNING"
    ELSE "PASS"

C10_SkippedPassIsNeutral ==
    /\ (opc \in {"well_architected", "summary", "returned"} /\ ~parameters_path) =>
           /\ parameter_results.status = "SKIPPED"
           /\ parameter_results.error_count = 0
           /\ parameter_results.warning_count = 0
    /\ (opc = "returned" /\ parameter_results.status = "SKIPPED") =>
           summary.overall_status = StatusOfOthers

\* a skipped parameter pass beside two passing passes, one with a warning
C10_Witness ==
    /\ opc = "returned"
    /\ ~parameters_path
    /\ parameter_results.status = "SKIPPED"
    /\ syntax_results.status = "PASS"
    /\ wa_results.status = "PASS" /\ wa_results.warning_count = 1
    /\ summary.overall_status = "WARNING"

(***************************************************************************)
(* C11: a pass that raises leaves status ERROR with error count 1 in its   *)
(* own slot, the passes after it still run, and the summary is computed    *)
(* from three filled slots and carries all three, even when every pass     *)
(* raised.                                                                 *)
(***************************************************************************)
SlotOf(pass) ==
    CASE pass = "syntax" -> syntax_results
      [] pass = "parameter" -> parameter_results
      [] pass = "well_architected" -> wa_results

PassesRunAt(position) ==
    CASE position = "syntax" -> {}
      [] position = "parameter" -> {"syntax"}
      [] position = "well_architected" -> {"syntax", "parameter"}
      [] position \in {"summary", "returned"} -> {"syntax", "parameter", "well_architected"}
      [] OTHER -> {}

C11_RaisingPassIsIsolated ==
    /\ raised_in \subseteq PassesRunAt(opc)
    /\ \A pass \in PassesRunAt(opc) : SlotOf(pass) # NoSlot
    /\ \A pass \in raised_in :
           /\ SlotOf(pass).status = "ERROR"
           /\ SlotOf(pass).error_count = 1
           /\ ~SlotOf(pass).is_valid
    /\ opc = "returned" =>
           /\ summary # NoSlot
           /\ summary.syntax_validation = syntax_results
           /\ summary.parameter_validation = parameter_results
           /\ summary.well_architected_validation = wa_results
           /\ raised_in # {} => summary.overall_status = "FAIL"

\* every pass raised and the summary still holds three ERROR results
C11_Witness ==
    /\ opc = "returned"
    /\ raised_in = {"syntax", "parameter", "well_architected"}
    /\ summary.errors = 3
    /\ summary.overall_status = "FAIL"

(***************************************************************************)
(* C12: a pass result with status FAIL has an error count of at least 1;   *)
(* a pass that found only warnings does not report FAIL.                   *)
(***************************************************************************)
C12_FailMeansErrors ==
    \A pass \in PassesRunAt(opc) :
        SlotOf(pass).status = "FAIL" => SlotOf(pass).error_count >= 1

(***************************************************************************)
(* C13: validate_all enumerates every violation: once it has returned,     *)
(* each missing section and every error that the field checks, the         *)
(* consistency check and the uniqueness check find in the configuration    *)
(* is recorded, whatever the earlier checks found.                         *)
(***************************************************************************)
C13_EveryViolationEnumerated ==
    ret # "none" =>
        /\ \A section \in BothSections \ config.sections :
               MissingSection(section) \in Range(errors)
        /\ Range(validate_stack_outputs(config.stack_outputs).errors) \subseteq Range(errors)
        /\ Range(validate_dependencies(config.dependencies).errors) \subseteq Range(errors)
        /\ Range(validate_output_dependency_consistency(config).errors)
               \subseteq Range(errors)
        /\ Range(validate_export_name_uniqueness(config.stack_outputs).errors)
               \subseteq Range(errors)

(***************************************************************************)
(* C14: validate_all never raises: every run on a parseable configuration  *)
(* ends by returning a boolean.                                            *)
(***************************************************************************)
C14_NeverRaises == pc # "raised"

(***************************************************************************)
(* C15: a second validate_all on the same configuration leaves the same    *)
(* errors and warnings, in the same order, as the first call left: none    *)
(* added, none repeated.                                                   *)
(***************************************************************************)
C15_SecondRunSameDiagnostics ==
    (run = 2 /\ pc = "done") =>
        /\ errors = first_errors
        /\ warnings = first_warnings

(***************************************************************************)
(* C16: after export_configuration and import_configuration into an empty *)
(* manager every dependency has the optional_outputs it had before: None   *)
(* stays None and the empty list stays the empty list.                     *)
(***************************************************************************)
OptionalOutputsOf(dependencies_by_stack) ==
    [i \in 1..Len(dependencies_by_stack) |->
        Entry(dependencies_by_stack[i].key,
              [j \in 1..Len(dependencies_by_stack[i].val) |->
                  dependencies_by_stack[i].val[j].optional_outputs])]

C16_OptionalOutputsRoundTrip ==
    mpc = "imported" =>
        OptionalOutputsOf(restored.dependencies) = OptionalOutputsOf(manager.dependencies)

(***************************************************************************)
(* C17: after export_configuration and import_configuration into an empty *)
(* manager every stack has the same ordered list of outputs, equal in all  *)
(* five fields, and the same ordered list of dependencies, equal in        *)
(* stack_name and required_outputs.                                        *)
(***************************************************************************)
RequiredPartOf(dependencies_by_stack) ==
    [i \in 1..Len(dependencies_by_stack) |->
        Entry(dependencies_by_stack[i].key,
              [j \in 1..Len(dependencies_by_stack[i].val) |->
                  <<dependencies_by_stack[i].val[j].stack_name,
                    dependencies_by_stack[i].val[j].required_outputs>>])]

C17_RoundTripKeepsOutputsAndRequired ==
    mpc = "imported" =>
        /\ restored.stack_outputs = manager.stack_outputs
        /\ RequiredPartOf(restored.dependencies) = RequiredPartOf(manager.dependencies)

\* a round trip of two outputs, one with conditions, and two dependencies
C17_Witness ==
    /\ mpc = "imported"
    /\ Has(manager.stack_outputs, StackNames[1])
    /\ Get(manager.stack_outputs, StackNames[1]) = <<OutputX, OutputY>>
    /\ Get(restored.stack_outputs, StackNames[1]) = <<OutputX, OutputY>>
    /\ Has(manager.dependencies, StackNames[1])
    /\ Len(Get(manager.dependencies, StackNames[1])) = 2
    /\ Len(Get(restored.dependencies, StackNames[1])) = 2

(***************************************************************************)
(* C18: the outputs recorded for a stack are exactly the list passed in    *)
(* the most recent register_stack_outputs call for it, whatever that list  *)
(* holds; a stack never registered has no entry.                           *)
(***************************************************************************)
OutputCallsFor(stack_name) ==
    SelectSeq(calls, LAMBDA c : c.op = "register_stack_outputs"
                                /\ c.stack_name = stack_name)

C18_LastRegistrationWins ==
    \A stack_name \in ManagerStacks :
        LET mine == OutputCallsFor(stack_name)
        IN  IF Len(mine) = 0
            THEN ~Has(manager.stack_outputs, stack_name)
            ELSE /\ Has(manager.stack_outputs, stack_name)
                 /\ Get(manager.stack_outputs, stack_name) = mine[Len(mine)].outputs

\* a stack registered twice: two outputs sharing an export name replace
\* the list registered first
C18_Witness ==
    LET mine == OutputCallsFor(StackNames[1])
    IN  /\ Len(mine) = 2
        /\ mine[1].outputs = <<OutputZ>>
        /\ mine[2].outputs = <<OutputX, OutputY>>
        /\ Get(manager.stack_outputs, StackNames[1]) = <<OutputX, OutputY>>

(***************************************************************************)
(* C19: the dependency list of a stack is exactly the sequence of          *)
(* dependencies registered for it, in call order, duplicates kept.         *)
(***************************************************************************)
DependencyCallsFor(stack_name) ==
    SelectSeq(calls, LAMBDA c : c.op = "register_dependency"
                                /\ c.stack_name = stack_name)

C19_DependenciesInCallOrder ==
    \A stack_name \in ManagerStacks :
        LET mine == DependencyCallsFor(stack_name)
        IN  IF Len(mine) = 0
            THEN ~Has(manager.dependencies, stack_name)
            ELSE /\ Has(manager.dependencies, stack_name)
                 /\ Get(manager.dependencies, stack_name)
                        = [i \in 1..Len(mine) |-> mine[i].dependency]

\* the same dependency registered twice for one stack, with another between
C19_Witness ==
    LET deps == IF Has(manager.dependencies, StackNames[1])
                THEN Get(manager.dependencies, StackNames[1]) ELSE <<>>
    IN  /\ Len(deps) = 3
        /\ deps[1] = deps[3]
        /\ deps[1] # deps[2]


(***************************************************************************)
(* C20: an export name that lacks the project placeholder or the           *)
(* environment placeholder produces a warning and never an error.  When    *)
(* validate_all has run every check, each such output has its naming       *)
(* warning, no error is a naming finding, and False is returned only with  *)
(* an error recorded.  In validate_all_stacks a stack's is_valid is False  *)
(* exactly when the stack has an error or a missing export, none of which  *)
(* is a naming finding, and every result carries the naming issues among   *)
(* its warnings.                                                           *)
(***************************************************************************)
NamingFindings(diagnostics) == SelectSeq(diagnostics, LAMBDA d : d.kind = "naming")

C20_NamingIsWarningOnly ==
    /\ FullRun =>
          /\ NamingFindings(errors) = <<>>
          /\ Len(NamingFindings(warnings)) = Len(NamingPairs(config.stack_outputs))
          /\ ret = "False" => Len(errors) > 0
    /\ dv_pc = "validated" =>
          \A k \in 1..Len(dv_results) :
              LET result == dv_results[k].val
              IN  /\ result.is_valid =
                         (Len(result.errors) = 0 /\ Len(result.missing_exports) = 0)
                  /\ NamingFindings(result.errors) = <<>>
                  /\ NamingFindings(result.missing_exports) = <<>>
                  /\ NamingFindings(result.warnings) =
                         validate_export_naming_consistency(config).result

\* an export name without the project placeholder: validate_all returned
\* True with the naming warning, and validate_all_stacks left a stack valid
\* with the naming issue among its warnings
C20_Witness ==
    /\ FullRun
    /\ ret = "True"
    /\ \E i \in 1..Len(warnings) :
          warnings[i].kind = "naming" /\ ~warnings[i].export.project
    /\ dv_pc = "validated"
    /\ \E k \in 1..Len(dv_results) :
          /\ dv_results[k].val.is_valid
          /\ NamingFindings(dv_results[k].val.warnings) # <<>>

(***************************************************************************)
(* C21: cycle detection terminates on every finite dependency graph,       *)
(* cycles, self-references and diamonds included: every probe of either    *)
(* detector eventually returns, and no probe is ever left by a             *)
(* RecursionError.                                                         *)
(***************************************************************************)
C21_ProbeTerminates == <>(hp_pc = "returned") /\ [](hp_pc # "raised")

\* a probe of ConfigValidator returned on a graph with a self-reference, a
\* cycle and a stack reached along two paths
C21_Witness ==
    /\ hp_pc = "returned"
    /\ probe.kind = "ConfigValidator"
    /\ {<<StackNames[1], StackNames[2]>>, <<StackNames[1], StackNames[3]>>,
        <<StackNames[2], StackNames[3]>>, <<StackNames[3], StackNames[3]>>}
           = Edges(config.dependencies)
    /\ probe.start = StackNames[1]

(***************************************************************************)
(* C24: within one probe no stack has its outgoing dependencies explored   *)
(* more than once, even when it is reachable along several paths.          *)
(***************************************************************************)
C24_ExploredOncePerProbe ==
    \A i, j \in 1..Len(hp_explored) :
        i # j => hp_explored[i] # hp_explored[j]

NotListShaped(dep, field) ==
    /\ field \in dep.keys
    /\ \/ field \in dep.scalars
       \/ field = "optional_outputs" /\ dep.optional_null

C23_StructuralErrorsExact ==
    /\ pc = "stack_outputs_returned" =>
          /\ \A k \in 1..Len(config.stack_outputs) :
             \A i \in 1..Len(config.stack_outputs[k].val) :
             \A f \in Range(OutputFields) :
                 Occurrences(errors, OutputFieldMissing(config.stack_outputs[k].key,
                                                        i - 1, f))
                     = IF f \in config.stack_outputs[k].val[i].keys THEN 0 ELSE 1
          /\ \A j \in 1..Len(errors) : errors[j].kind = "output_field_missing"
          /\ (ret = "False") = (Len(errors) > 0)
    /\ pc = "dependencies_returned" =>
          /\ \A k \in 1..Len(config.dependencies) :
             \A i \in 1..Len(config.dependencies[k].val) :
                 LET stack == config.dependencies[k].key
                     dep == config.dependencies[k].val[i]
                 IN  /\ \A f \in Range(DepFields) :
                            Occurrences(errors, DepFieldMissing(stack, i - 1, f))
                                = IF f \in dep.keys THEN 0 ELSE 1
                     /\ \A f \in Range(ListFields) :
                            Occurrences(errors, DepNotList(stack, i - 1, f))
                                = IF NotListShaped(dep, f) THEN 1 ELSE 0
          /\ \A j \in 1..Len(errors) :
                 errors[j].kind \in {"dep_field_missing", "dep_not_list"}
          /\ (ret = "False") = (Len(errors) > 0)

(***************************************************************************)
(* C25: every cycle reported by ConfigValidator.detect_circular_dependencies*)
(* is a sequence s0, s1, ..., sk, s0 with k >= 1 whose s0..sk are pairwise  *)
(* distinct and whose consecutive pairs (x, y) are declared dependencies of *)
(* x on y; validate_all records exactly one error per reported cycle, in    *)
(* the order of the reported cycles.                                        *)
(***************************************************************************)
WellFormedCycle(cycle, dependencies) ==
    LET body == CycleBody(cycle)
    IN  /\ Len(cycle) >= 3
        /\ cycle[Len(cycle)] = cycle[1]
        /\ \A i, j \in 1..Len(body) : i # j => body[i] # body[j]
        /\ \A i \in 1..(Len(cycle) - 1) :
               <<cycle[i], cycle[i + 1]>> \in Edges(dependencies)

C25_CyclesAreWellFormed ==
    FullRun =>
        /\ \A i \in 1..Len(circular_deps) :
               WellFormedCycle(circular_deps[i], config.dependencies)
        /\ CycleErrors = [i \in 1..Len(circular_deps) |-> CycleError(circular_deps[i])]

\* a ring of three stacks is reported from each of its stacks
C25_Witness ==
    /\ FullRun
    /\ Len(circular_deps) = 3
    /\ \A i \in 1..3 : Len(circular_deps[i]) = 4
    /\ Len(CycleErrors) = 3

(***************************************************************************)
(* C26: ConfigValidator.detect_circular_dependencies reports exactly one    *)
(* cycle for each stack that lies on a directed cycle of length >= 2, that  *)
(* cycle starting and ending at the stack, and no cycle starting at a stack *)
(* that lies on no such cycle (a stack that only reaches a cycle, or only   *)
(* depends on itself); the number of reported cycles is the number of       *)
(* stacks lying on cycles.                                                  *)
(***************************************************************************)
\* stack lies on a directed cycle through at least one other stack
OnCycle(stack, dependencies) ==
    \E other \in Stacks \ {stack} :
        /\ <<stack, other>> \in Reach(dependencies)
        /\ <<other, stack>> \in Reach(dependencies)

CyclesFrom(stack) ==
    SelectSeq(circular_deps, LAMBDA c : c[1] = stack /\ c[Len(c)] = stack)

C26_OneCyclePerStackOnCycle ==
    FullRun =>
        /\ \A stack \in Stacks :
               Len(CyclesFrom(stack)) =
                   IF OnCycle(stack, config.dependencies) THEN 1 ELSE 0
        /\ Len(circular_deps) =
               Cardinality({stack \in Stacks : OnCycle(stack, config.dependencies)})

\* A and B depend on each other and C depends on A: cycles are
\* reported from A and from B and none from C
C26_Witness ==
    /\ FullRun
    /\ Edges(config.dependencies) =
           {<<StackNames[1], StackNames[2]>>, <<StackNames[2], StackNames[1]>>,
            <<StackNames[3], StackNames[1]>>}
    /\ Len(circular_deps) = 2
    /\ Len(CyclesFrom(StackNames[3])) = 0

(***************************************************************************)
(* C27: on a well-formed dependency mapping the two cycle detectors agree:  *)
(* ConfigValidator.detect_circular_dependencies returns a non-empty list    *)
(* exactly when DependencyValidator.detect_circular_dependencies does, a    *)
(* stack appears in a cycle of the first exactly when it appears in a pair  *)
(* of the second, and the second reports each unordered pair of mutually    *)
(* reachable distinct stacks once, never in both orders.                    *)
(***************************************************************************)
StacksIn(cycles) == UNION {Range(cycles[i]) : i \in 1..Len(cycles)}

MutuallyReachable(a, b, dependencies) ==
    /\ <<a, b>> \in Reach(dependencies)
    /\ <<b, a>> \in Reach(dependencies)

BothDetectorsRan == FullRun /\ dv_pc = "done"

C27_DetectorsAgree ==
    BothDetectorsRan =>
        /\ (Len(circular_deps) > 0) = (Len(dv_circular_deps) > 0)
        /\ StacksIn(circular_deps) = StacksIn(dv_circular_deps)
        /\ \A i \in 1..Len(dv_circular_deps) :
               /\ Len(dv_circular_deps[i]) = 2
               /\ dv_circular_deps[i][1] # dv_circular_deps[i][2]
        /\ \A a, b \in Stacks :
               a # b =>
                   Occurrences(dv_circular_deps, <<a, b>>)
                     + Occurrences(dv_circular_deps, <<b, a>>)
                       = IF MutuallyReachable(a, b, config.dependencies) THEN 1 ELSE 0

\* the ring of three stacks: three four-element cycles from the first
\* detector, the three unordered pairs from the second
C27_Witness ==
    /\ BothDetectorsRan
    /\ config.dependencies = Ring3
    /\ Len(circular_deps) = 3
    /\ Len(dv_circular_deps) = 3

(***************************************************************************)
(* C28: every pass result the orchestrator builds keeps status and is_valid *)
(* consistent: is_valid is True exactly when status is PASS or SKIPPED and  *)
(* False exactly when status is FAIL or ERROR; hence the overall status,    *)
(* which the summary decides from the is_valid fields, is FAIL exactly      *)
(* when some pass has status FAIL or ERROR.                                 *)
(***************************************************************************)
BuiltSlots == {r \in {syntax_results, parameter_results, wa_results} : r # NoSlot}

StatusConsistent(r) ==
    /\ r.status \in {"PASS", "SKIPPED", "FAIL", "ERROR"}
    /\ r.is_valid \in BOOLEAN
    /\ r.is_valid = (r.status \in {"PASS", "SKIPPED"})
    /\ (~r.is_valid) = (r.status \in {"FAIL", "ERROR"})

C28_StatusMatchesIsValid ==
    /\ \A r \in BuiltSlots : StatusConsistent(r)
    /\ opc = "returned" =>
           (summary.overall_status = "FAIL") =
               (\E r \in BuiltSlots : r.status \in {"FAIL", "ERROR"})

\* a run whose passes end FAIL, SKIPPED and FAIL, the Well-Architected pass
\* being invalid with warnings alone
C28_Witness ==
    /\ opc = "returned"
    /\ syntax_results.status = "FAIL" /\ ~syntax_results.is_valid
    /\ parameter_results.status = "SKIPPED" /\ parameter_results.is_valid
    /\ wa_results.status = "FAIL" /\ wa_results.error_count = 0
    /\ summary.overall_status = "FAIL"

(***************************************************************************)
(* C29: import_configuration is not idempotent on a non-empty registry: it  *)
(* replaces each listed stack's output list but appends each listed         *)
(* dependency, so after importing the same configuration twice into one     *)
(* CrossStackManager the output lists are as after one import while every   *)
(* stack's dependency list holds the imported dependencies twice.           *)
(***************************************************************************)
\* the outputs and dependencies the exported file lists for one stack
ListedOutputs(stack_name) ==
    LET data == Get(exported.stack_outputs, stack_name)
    IN  [j \in 1..Len(data) |-> OutputFromData(data[j])]

ListedDependencies(stack_name) ==
    LET data == Get(exported.dependencies, stack_name)
    IN  [j \in 1..Len(data) |-> DependencyFromData(data[j])]

C29_SecondImportDoublesDependencies ==
    mpc = "imported_twice" =>
        /\ Keys(restored.stack_outputs) = Keys(exported.stack_outputs)
        /\ \A stack_name \in Keys(exported.stack_outputs) :
               Get(restored.stack_outputs, stack_name) = ListedOutputs(stack_name)
        /\ Keys(restored.dependencies) = Keys(exported.dependencies)
        /\ \A stack_name \in Keys(exported.dependencies) :
               Get(restored.dependencies, stack_name) =
                   ListedDependencies(stack_name) \o ListedDependencies(stack_name)

\* two outputs and two different dependencies of one stack imported twice
C29_Witness ==
    /\ mpc = "imported_twice"
    /\ Has(restored.stack_outputs, StackNames[1])
    /\ Len(Get(restored.stack_outputs, StackNames[1])) = 2
    /\ Has(restored.dependencies, StackNames[1])
    /\ Len(Get(restored.dependencies, StackNames[1])) = 4
    /\ Get(restored.dependencies, StackNames[1])[1]
           # Get(restored.dependencies, StackNames[1])[2]

(***************************************************************************)
(* C30: a validation run never modifies the configuration it validates:     *)
(* no step of validate_all changes the stack_outputs or dependencies        *)
(* mapping of config, for every input and whichever checks fail.            *)
(***************************************************************************)
C30_ConfigIsReadOnly == [][config' = config]_vars

\* a run that failed on a cycle and whose probes looked up a stack that has
\* no entry in dependencies
C30_Witness ==
    /\ FullRun
    /\ ret = "False"
    /\ Len(circular_deps) > 0
    /\ \E k \in 1..Len(config.dependencies) :
           StackNames[3] \in Range(has_path_lookups(config.dependencies,
                                       config.dependencies[k].key,
                                       config.dependencies[k].key, {}, <<>>))
    /\ ~Has(config.dependencies, StackNames[3])

====
